---- MODULE Spec2Model ----
(***************************************************************************)
(* Task & Diet Tracker: the in-memory Document, its mutation API           *)
(* (src/src/context/AppDataContext.tsx), the usage count                   *)
(* (src/src/lib/metaUsage.ts), the date utilities (src/src/lib/date.ts)    *)
(* and the sanitization pipeline of the main process                       *)
(* (src/electron/main.ts).                                                 *)
(*                                                                         *)
(* Strings the code inspects (dates, names, ids) are sequences of          *)
(* one-character strings, so that the regular expression, split, trim,     *)
(* toLowerCase and the string comparison are computed character by         *)
(* character.  null is the empty sequence, a number n that may be null     *)
(* is <<n>>.                                                               *)
(***************************************************************************)
EXTENDS Integers, Sequences, FiniteSets, TLC

\* Bounds of the model.
MaxIds == 2
MaxTime == 1
MaxLen == 2
MaxPasses == 2

\* The save effect is followed for MaxClock milliseconds and MaxChanges runs.
MaxClock == 500

MaxChanges == 3

\* The main process makes at most MaxMade identifiers over the calls followed.
MaxMade == 3

\* The calls of the main process followed: the load and the imports after it.
MaxCalls == 2

\* The renderer: data, idCounter, lastCall.  The main process: input,
\* sanitized, madeIds.  now is the clock of both.  The date library:
\* dateText (a display date typed by the user), isoText and displayText (what
\* displayDateToIso and isoToDisplayDate made of it, once they ran).
\* The save effect of AppDataProvider: loading and error (React state),
\* timer (the timer of the effect that ran last, if it set one), timers (the
\* timers window.setTimeout holds), saves (the calls of saveData so far) and
\* changes (the times the effect ran and the Document it ran with).
VARIABLES data, now, idCounter, lastCall, input, sanitized, madeIds,
          dateText, isoText, displayText,
          loading, error, timer, timers, saves, changes,
          file, ipc

vars == <<data, now, idCounter, lastCall, input, sanitized, madeIds,
          dateText, isoText, displayText,
          loading, error, timer, timers, saves, changes,
          file, ipc>>

\* The data file of the main process (file) and the last call the renderer
\* made to the main process, with what it found and what came of it (ipc).
fileVars == <<file, ipc>>

saveVars == <<loading, error, timer, timers, saves, changes>>

rendererVars == <<data, idCounter, lastCall>>

mainVars == <<input, sanitized, madeIds>>

dateVars == <<dateText, isoText, displayText>>

\* What the callbacks of the renderer leave alone.
nonRendererVars == <<mainVars, dateVars, saveVars, fileVars>>

(***************************************************************************)
(* Characters and strings                                                  *)
(***************************************************************************)
Digits == <<"0", "1", "2", "3", "4", "5", "6", "7", "8", "9">>

IsDigit(c) == c \in {"0", "1", "2", "3", "4", "5", "6", "7", "8", "9"}

\* UTF-16 code unit of the characters the model uses.
CharCodes ==
  [c \in {" ", "-", "/", "0", "1", "2", "3", "4", "5", "6", "7", "8", "9",
          "A", "B", "a", "b", "u"} |->
     CASE c = " " -> 32 [] c = "-" -> 45 [] c = "/" -> 47
       [] c = "0" -> 48 [] c = "1" -> 49 [] c = "2" -> 50 [] c = "3" -> 51
       [] c = "4" -> 52 [] c = "5" -> 53 [] c = "6" -> 54 [] c = "7" -> 55
       [] c = "8" -> 56 [] c = "9" -> 57
       [] c = "A" -> 65 [] c = "B" -> 66 [] c = "a" -> 97 [] c = "b" -> 98
       [] c = "u" -> 117]

CharCode(c) == CharCodes[c]

\* a < b on JavaScript strings: lexicographic on code units.
StrLess(a, b) ==
  \E i \in 1..Len(b) :
    /\ \A j \in 1..(i - 1) : j <= Len(a) /\ a[j] = b[j]
    /\ (i > Len(a) \/ CharCode(a[i]) < CharCode(b[i]))

\* a >= b on JavaScript strings.
StrGeq(a, b) == ~StrLess(a, b)

IsSpace(c) == c = " "

SetMin(S) == CHOOSE x \in S : \A y \in S : x <= y

SetMax(S) == CHOOSE x \in S : \A y \in S : x >= y

\* String.prototype.trim
trim(s) ==
  LET kept == {i \in 1..Len(s) : ~IsSpace(s[i])}
  IN  IF kept = {} THEN <<>> ELSE SubSeq(s, SetMin(kept), SetMax(kept))

LowerChar(c) == CASE c = "A" -> "a" [] c = "B" -> "b" [] OTHER -> c

\* String.prototype.toLowerCase
toLowerCase(s) == [i \in 1..Len(s) |-> LowerChar(s[i])]

RECURSIVE split(_, _)
\* String.prototype.split with a one-character separator.
split(s, sep) ==
  LET hits == {i \in 1..Len(s) : s[i] = sep}
  IN  IF hits = {} THEN <<s>>
      ELSE LET i == SetMin(hits)
           IN  <<SubSeq(s, 1, i - 1)>> \o split(SubSeq(s, i + 1, Len(s)), sep)

(***************************************************************************)
(* src/src/lib/date.ts                                                     *)
(***************************************************************************)
\* String(value).padStart(2, "0")
padToTwo(value) ==
  IF Len(value) >= 2 THEN value
  ELSE IF Len(value) = 1 THEN <<"0">> \o value
  ELSE <<"0", "0">>

\* DISPLAY_DATE_REGEX = /^(0[1-9]|1[0-2])\/(0[1-9]|[12]\d|3[01])\/\d{4}$/
isDisplayDate(value) ==
  /\ Len(value) = 10
  /\ \/ value[1] = "0" /\ IsDigit(value[2]) /\ value[2] # "0"
     \/ value[1] = "1" /\ value[2] \in {"0", "1", "2"}
  /\ value[3] = "/"
  /\ \/ value[4] = "0" /\ IsDigit(value[5]) /\ value[5] # "0"
     \/ value[4] \in {"1", "2"} /\ IsDigit(value[5])
     \/ value[4] = "3" /\ value[5] \in {"0", "1"}
  /\ value[6] = "/"
  /\ \A i \in 7..10 : IsDigit(value[i])

\* An isoToDisplayDate that writes the day before the month.
isoToDisplayDate_DayFirst(isoDate) ==
  IF isoDate = <<>> THEN <<>>
  ELSE LET parts == split(isoDate, "-")
           year == IF Len(parts) >= 1 THEN parts[1] ELSE <<>>
           month == IF Len(parts) >= 2 THEN parts[2] ELSE <<>>
           day == IF Len(parts) >= 3 THEN parts[3] ELSE <<>>
       IN  IF year = <<>> \/ month = <<>> \/ day = <<>> THEN <<>>
           ELSE padToTwo(day) \o <<"/">> \o padToTwo(month) \o <<"/">> \o year

\* A part the split did not produce is undefined, which is falsy as the
\* empty string is.
isoToDisplayDate(isoDate) ==
  IF isoDate = <<>> THEN <<>>
  ELSE LET parts == split(isoDate, "-")
           year == IF Len(parts) >= 1 THEN parts[1] ELSE <<>>
           month == IF Len(parts) >= 2 THEN parts[2] ELSE <<>>
           day == IF Len(parts) >= 3 THEN parts[3] ELSE <<>>
       IN  IF year = <<>> \/ month = <<>> \/ day = <<>> THEN <<>>
           ELSE padToTwo(month) \o <<"/">> \o padToTwo(day) \o <<"/">> \o year

displayDateToIso(displayDate) ==
  IF ~isDisplayDate(displayDate) THEN <<>>
  ELSE LET parts == split(displayDate, "/")
           month == parts[1]
           day == parts[2]
           year == parts[3]
       IN  year \o <<"-">> \o padToTwo(month) \o <<"-">> \o padToTwo(day)

(***************************************************************************)
(* The Document                                                            *)
(***************************************************************************)
\* The tracker categories of the Document (the keys of AppData["trackers"]).
TrackerCategories ==
  {"weight", "fasting", "water", "carbs", "calories", "workouts", "steps",
   "sleep", "mood", "homework", "cleaning", "substances", "entertainment"}

\* trackerKeys as the renderer iterates it.  The version of types.ts that
\* declares the water category is not part of the sources; the list is the
\* one of the glossary (13 categories).
trackerKeys ==
  <<"weight", "fasting", "water", "carbs", "calories", "workouts", "steps",
    "sleep", "mood", "homework", "cleaning", "substances", "entertainment">>

MetaListKeys ==
  {"workouts", "subjects", "children", "chores", "substances", "entertainment"}

Null == <<>>

DefaultSettings ==
  [theme |-> "light",
   startingWeightLbs |-> Null,
   dietStartDate |-> Null,
   weightLossPerWeekLbs |-> Null,
   weightGoalLbs |-> Null,
   carbLimitPerDay |-> Null,
   calorieLimitPerDay |-> Null,
   dailyStepsGoal |-> Null,
   desiredSleepHours |-> Null]

\* createDefaultData of the renderer, stamped at time t.
createDefaultData(t) ==
  [version |-> 2,
   settings |-> DefaultSettings,
   meta |-> [l \in MetaListKeys |-> <<>>],
   trackers |-> [k \in TrackerCategories |-> <<>>],
   updatedAt |-> t]

\* nextId(): crypto.randomUUID(), the n-th identifier ever drawn.
nextId(n) == <<"u", Digits[n + 1]>>

stamp(d, t) == [d EXCEPT !.updatedAt = t]

RECURSIVE SumLens(_, _)
SumLens(trackers, keys) ==
  IF keys = <<>> THEN 0
  ELSE Len(trackers[Head(keys)]) + SumLens(trackers, Tail(keys))

(***************************************************************************)
(* src/src/lib/metaUsage.ts                                                *)
(***************************************************************************)
Count(seq, Test(_)) == Cardinality({i \in 1..Len(seq) : Test(seq[i])})

includes(seq, x) == \E i \in 1..Len(seq) : seq[i] = x

\* A usage count that looks at the activities of workouts and entertainment
\* only.
getMetaItemUsageCount_ActivitiesOnly(d, listKey, itemId) ==
  CASE listKey = "workouts" ->
         Count(d.trackers.workouts,
               LAMBDA entry : \E i \in 1..Len(entry.activities) :
                                 entry.activities[i].metaId = itemId)
    [] listKey = "entertainment" ->
         Count(d.trackers.entertainment,
               LAMBDA entry : \E i \in 1..Len(entry.activities) :
                                 entry.activities[i].metaId = itemId)
    [] OTHER -> 0

getMetaItemUsageCount(d, listKey, itemId) ==
  CASE listKey = "workouts" ->
         Count(d.trackers.workouts,
               LAMBDA entry : \E i \in 1..Len(entry.activities) :
                                 entry.activities[i].metaId = itemId)
    [] listKey = "subjects" ->
         Count(d.trackers.homework, LAMBDA entry : entry.subjectId = itemId)
    [] listKey = "children" ->
         Count(d.trackers.homework, LAMBDA entry : entry.childId = itemId)
    [] listKey = "chores" ->
         Count(d.trackers.cleaning, LAMBDA entry : includes(entry.choreIds, itemId))
    [] listKey = "substances" ->
         Count(d.trackers.substances,
               LAMBDA entry : includes(entry.substanceIds, itemId))
    [] listKey = "entertainment" ->
         Count(d.trackers.entertainment,
               LAMBDA entry : \E i \in 1..Len(entry.activities) :
                                 entry.activities[i].metaId = itemId)
    [] OTHER -> 0

(***************************************************************************)
(* The mutation API of src/src/context/AppDataContext.tsx.  Each operator  *)
(* is one callback applied to the Document `previous` at time t; it        *)
(* yields the next Document and the value the callback returns.            *)
(***************************************************************************)
\* The value a callback returns, tagged with its JavaScript type.
Void == [type |-> "undefined"]

Bool(b) == [type |-> "boolean", value |-> b]

Num(n) == [type |-> "number", value |-> n]

Result(ok, reason) == [type |-> "object", ok |-> ok, reason |-> reason]

\* { id: nextId(), ...entry }
WithId(entry, id) == entry @@ [id |-> id]

\* addTrackerEntryCall with the new entry put after the previous list.
addTrackerEntryCall_Appends(previous, trackerKey, entry, id, t) ==
  IF ~isDisplayDate(entry.date)
  THEN [data |-> previous, ret |-> Void]
  ELSE [data |-> stamp([previous EXCEPT !.trackers[trackerKey] =
                          @ \o <<WithId(entry, id)>>], t),
        ret |-> Void]

\* addTrackerEntryCall where the new entry takes the place of the entries
\* of its date.
addTrackerEntryCall_ReplacesDate(previous, trackerKey, entry, id, t) ==
  IF ~isDisplayDate(entry.date)
  THEN [data |-> previous, ret |-> Void]
  ELSE [data |-> stamp([previous EXCEPT !.trackers[trackerKey] =
                          <<WithId(entry, id)>>
                            \o SelectSeq(@, LAMBDA other : other.date # entry.date)], t),
        ret |-> Void]

addTrackerEntryCall(previous, trackerKey, entry, id, t) ==
  IF ~isDisplayDate(entry.date)
  THEN [data |-> previous, ret |-> Void]
  ELSE [data |-> stamp([previous EXCEPT !.trackers[trackerKey] =
                          <<WithId(entry, id)>> \o @], t),
        ret |-> Void]

\* removeTrackerEntryCall with the test of the filter inverted.
removeTrackerEntryCall_Inverted(previous, trackerKey, entryId, t) ==
  [data |-> stamp([previous EXCEPT !.trackers[trackerKey] =
                     SelectSeq(@, LAMBDA entry : entry.id = entryId)], t),
   ret |-> Void]

removeTrackerEntryCall(previous, trackerKey, entryId, t) ==
  [data |-> stamp([previous EXCEPT !.trackers[trackerKey] =
                     SelectSeq(@, LAMBDA entry : entry.id # entryId)], t),
   ret |-> Void]

\* clearAllTrackerEntriesCall that keeps the water entries.
clearAllTrackerEntriesCall_KeepsWater(previous, t) ==
  LET removedCount == SumLens(previous.trackers, trackerKeys)
  IN  IF removedCount = 0
      THEN [data |-> previous, ret |-> Num(removedCount)]
      ELSE [data |-> stamp([previous EXCEPT !.trackers =
                              [k \in TrackerCategories |->
                                 IF k = "water" THEN previous.trackers[k] ELSE <<>>]], t),
            ret |-> Num(removedCount)]

clearAllTrackerEntriesCall(previous, t) ==
  LET removedCount == SumLens(previous.trackers, trackerKeys)
  IN  IF removedCount = 0
      THEN [data |-> previous, ret |-> Num(removedCount)]
      ELSE [data |-> stamp([previous EXCEPT !.trackers =
                              [k \in TrackerCategories |-> <<>>]], t),
            ret |-> Num(removedCount)]

\* remaining with > in place of >=.
remaining_Strict(entries, cutoffIsoDate) ==
  SelectSeq(entries, LAMBDA entry : StrLess(cutoffIsoDate, displayDateToIso(entry.date)))

\* entry => displayDateToIso(entry.date) >= cutoffIsoDate
remaining(entries, cutoffIsoDate) ==
  SelectSeq(entries, LAMBDA entry : StrGeq(displayDateToIso(entry.date), cutoffIsoDate))

clearTrackerEntriesBeforeCall(previous, beforeDate, t) ==
  IF ~isDisplayDate(beforeDate)
  THEN [data |-> previous, ret |-> Num(0)]
  ELSE LET cutoffIsoDate == displayDateToIso(beforeDate)
           nextTrackers ==
             [weight |-> remaining(previous.trackers.weight, cutoffIsoDate),
              fasting |-> remaining(previous.trackers.fasting, cutoffIsoDate),
              water |-> remaining(previous.trackers.water, cutoffIsoDate),
              carbs |-> remaining(previous.trackers.carbs, cutoffIsoDate),
              calories |-> remaining(previous.trackers.calories, cutoffIsoDate),
              workouts |-> remaining(previous.trackers.workouts, cutoffIsoDate),
              steps |-> remaining(previous.trackers.steps, cutoffIsoDate),
              sleep |-> remaining(previous.trackers.sleep, cutoffIsoDate),
              mood |-> remaining(previous.trackers.mood, cutoffIsoDate),
              homework |-> remaining(previous.trackers.homework, cutoffIsoDate),
              cleaning |-> remaining(previous.trackers.cleaning, cutoffIsoDate),
              substances |-> remaining(previous.trackers.substances, cutoffIsoDate),
              entertainment |->
                remaining(previous.trackers.entertainment, cutoffIsoDate)]
           removedCount ==
               (Len(previous.trackers.weight) - Len(remaining(previous.trackers.weight, cutoffIsoDate)))
             + (Len(previous.trackers.fasting) - Len(remaining(previous.trackers.fasting, cutoffIsoDate)))
             + (Len(previous.trackers.water) - Len(remaining(previous.trackers.water, cutoffIsoDate)))
             + (Len(previous.trackers.carbs) - Len(remaining(previous.trackers.carbs, cutoffIsoDate)))
             + (Len(previous.trackers.calories) - Len(remaining(previous.trackers.calories, cutoffIsoDate)))
             + (Len(previous.trackers.workouts) - Len(remaining(previous.trackers.workouts, cutoffIsoDate)))
             + (Len(previous.trackers.steps) - Len(remaining(previous.trackers.steps, cutoffIsoDate)))
             + (Len(previous.trackers.sleep) - Len(remaining(previous.trackers.sleep, cutoffIsoDate)))
             + (Len(previous.trackers.mood) - Len(remaining(previous.trackers.mood, cutoffIsoDate)))
             + (Len(previous.trackers.homework) - Len(remaining(previous.trackers.homework, cutoffIsoDate)))
             + (Len(previous.trackers.cleaning) - Len(remaining(previous.trackers.cleaning, cutoffIsoDate)))
             + (Len(previous.trackers.substances) - Len(remaining(previous.trackers.substances, cutoffIsoDate)))
             + (Len(previous.trackers.entertainment) - Len(remaining(previous.trackers.entertainment, cutoffIsoDate)))
       IN  IF removedCount = 0
           THEN [data |-> previous, ret |-> Num(removedCount)]
           ELSE [data |-> stamp([previous EXCEPT !.trackers = nextTrackers], t),
                 ret |-> Num(removedCount)]

\* { ...previous.settings, ...settings }
updateSettingsCall(previous, settings, t) ==
  [data |-> stamp([previous EXCEPT !.settings = settings @@ @], t),
   ret |-> Void]

\* addMetaItemCall comparing the names without toLowerCase.
addMetaItemCall_CaseSensitive(previous, listKey, name, id, t) ==
  LET trimmed == trim(name)
      items == previous.meta[listKey]
      alreadyExists == \E i \in 1..Len(items) : items[i].name = trimmed
  IN  IF trimmed = <<>> THEN [data |-> previous, ret |-> Bool(FALSE)]
      ELSE IF alreadyExists THEN [data |-> previous, ret |-> Bool(FALSE)]
      ELSE [data |-> stamp([previous EXCEPT !.meta[listKey] =
                              Append(@, [id |-> id, name |-> trimmed])], t),
            ret |-> Bool(TRUE)]

addMetaItemCall(previous, listKey, name, id, t) ==
  LET trimmed == trim(name)
      items == previous.meta[listKey]
      alreadyExists ==
        \E i \in 1..Len(items) : toLowerCase(items[i].name) = toLowerCase(trimmed)
  IN  IF trimmed = <<>> THEN [data |-> previous, ret |-> Bool(FALSE)]
      ELSE IF alreadyExists THEN [data |-> previous, ret |-> Bool(FALSE)]
      ELSE [data |-> stamp([previous EXCEPT !.meta[listKey] =
                              Append(@, [id |-> id, name |-> trimmed])], t),
            ret |-> Bool(TRUE)]

\* renameMetaItemCall without the return of `previous` when nothing was
\* renamed.
renameMetaItemCall_AlwaysStamps(previous, listKey, itemId, name, t) ==
  LET trimmed == trim(name)
      items == previous.meta[listKey]
      hasDuplicate ==
        \E i \in 1..Len(items) :
          items[i].id # itemId /\ toLowerCase(items[i].name) = toLowerCase(trimmed)
      nextItems ==
        [i \in 1..Len(items) |->
           IF items[i].id # itemId \/ items[i].name = trimmed
           THEN items[i]
           ELSE [items[i] EXCEPT !.name = trimmed]]
      renamed ==
        \E i \in 1..Len(items) : items[i].id = itemId /\ items[i].name # trimmed
  IN  IF trimmed = <<>> THEN [data |-> previous, ret |-> Bool(FALSE)]
      ELSE IF hasDuplicate THEN [data |-> previous, ret |-> Bool(FALSE)]
      ELSE [data |-> stamp([previous EXCEPT !.meta[listKey] = nextItems], t),
            ret |-> Bool(renamed)]

renameMetaItemCall(previous, listKey, itemId, name, t) ==
  LET trimmed == trim(name)
      items == previous.meta[listKey]
      hasDuplicate ==
        \E i \in 1..Len(items) :
          items[i].id # itemId /\ toLowerCase(items[i].name) = toLowerCase(trimmed)
      nextItems ==
        [i \in 1..Len(items) |->
           IF items[i].id # itemId \/ items[i].name = trimmed
           THEN items[i]
           ELSE [items[i] EXCEPT !.name = trimmed]]
      renamed ==
        \E i \in 1..Len(items) : items[i].id = itemId /\ items[i].name # trimmed
  IN  IF trimmed = <<>> THEN [data |-> previous, ret |-> Bool(FALSE)]
      ELSE IF hasDuplicate THEN [data |-> previous, ret |-> Bool(FALSE)]
      ELSE IF ~renamed THEN [data |-> previous, ret |-> Bool(FALSE)]
      ELSE [data |-> stamp([previous EXCEPT !.meta[listKey] = nextItems], t),
            ret |-> Bool(TRUE)]

ReasonInUse == "This item is used by existing entries and cannot be deleted."

ReasonNotFound == "Item was not found."

\* removeMetaItemCall without the test of the usage count.
removeMetaItemCall_NoUsageGate(previous, listKey, itemId, t) ==
  LET nextItems == SelectSeq(previous.meta[listKey], LAMBDA item : item.id # itemId)
  IN  IF Len(nextItems) = Len(previous.meta[listKey])
      THEN [data |-> previous, ret |-> Result(FALSE, ReasonNotFound)]
      ELSE [data |-> stamp([previous EXCEPT !.meta[listKey] = nextItems], t),
            ret |-> Result(TRUE, "")]

removeMetaItemCall(previous, listKey, itemId, t) ==
  LET usageCount == getMetaItemUsageCount(previous, listKey, itemId)
      nextItems == SelectSeq(previous.meta[listKey], LAMBDA item : item.id # itemId)
  IN  IF usageCount > 0
      THEN [data |-> previous, ret |-> Result(FALSE, ReasonInUse)]
      ELSE IF Len(nextItems) = Len(previous.meta[listKey])
      THEN [data |-> previous, ret |-> Result(FALSE, ReasonNotFound)]
      ELSE [data |-> stamp([previous EXCEPT !.meta[listKey] = nextItems], t),
            ret |-> Result(TRUE, "")]

(***************************************************************************)
(* Inputs of the calls                                                     *)
(***************************************************************************)
Date20231231 == <<"1", "2", "/", "3", "1", "/", "2", "0", "2", "3">>

Date20240102 == <<"0", "1", "/", "0", "2", "/", "2", "0", "2", "4">>

Date20240103 == <<"0", "1", "/", "0", "3", "/", "2", "0", "2", "4">>

\* An ISO date where a display date is expected.
BadDate == <<"2", "0", "2", "4", "-", "0", "1", "-", "0", "2">>

ValidDates == {Date20231231, Date20240102, Date20240103}

DateInputs == ValidDates \cup {BadDate}

NameInputs == {<<>>, <<" ">>, <<"a">>, <<"A", " ">>, <<"b">>}

SettingsInputs == {[theme |-> "dark"]}

\* Every identifier nextId can have drawn within the bound.
IdInputs == {nextId(n) : n \in 0..(MaxIds - 1)}

ItemIds(d, listKey) == {d.meta[listKey][i].id : i \in 1..Len(d.meta[listKey])}

\* The choice a form offers for a reference: an item of the list, or no
\* selection while the list is empty.
RefInputs(d, listKey) ==
  IF d.meta[listKey] = <<>> THEN {<<>>} ELSE ItemIds(d, listKey)

ActivityInputs(d, listKey) ==
  IF d.meta[listKey] = <<>> THEN {<<>>}
  ELSE {<<[metaId |-> m, minutes |-> 30]>> : m \in ItemIds(d, listKey)}

IdListInputs(d, listKey) ==
  IF d.meta[listKey] = <<>> THEN {<<>>}
  ELSE {<<m>> : m \in ItemIds(d, listKey)}

\* NewTrackerEntryByKey[trackerKey]: the entries without id a form submits.
NewEntryInputs(d, trackerKey, date) ==
  CASE trackerKey = "weight" -> {[date |-> date, weightLbs |-> 180]}
    [] trackerKey = "fasting" -> {[date |-> date, hours |-> 16]}
    [] trackerKey = "water" -> {[date |-> date, liters |-> 2]}
    [] trackerKey = "carbs" -> {[date |-> date, carbs |-> 20, notes |-> ""]}
    [] trackerKey = "calories" -> {[date |-> date, calories |-> 500, notes |-> ""]}
    [] trackerKey = "workouts" ->
         {[date |-> date, activities |-> a] : a \in ActivityInputs(d, "workouts")}
    [] trackerKey = "steps" -> {[date |-> date, steps |-> 1000]}
    [] trackerKey = "sleep" ->
         {[date |-> date, sleepTime |-> "10:00 PM", wakeTime |-> "6:00 AM"]}
    [] trackerKey = "mood" ->
         {[date |-> date, moodStart |-> 4, moodEnd |-> 6, notes |-> ""]}
    [] trackerKey = "homework" ->
         {[date |-> date, subjectId |-> s, childId |-> c, minutes |-> 30, notes |-> ""] :
            s \in RefInputs(d, "subjects"), c \in RefInputs(d, "children")}
    [] trackerKey = "cleaning" ->
         {[date |-> date, choreIds |-> c, notes |-> ""] : c \in IdListInputs(d, "chores")}
    [] trackerKey = "substances" ->
         {[date |-> date, substanceIds |-> c, notes |-> ""] :
            c \in IdListInputs(d, "substances")}
    [] trackerKey = "entertainment" ->
         {[date |-> date, activities |-> a] : a \in ActivityInputs(d, "entertainment")}

(***************************************************************************)
(* src/electron/main.ts: the values sanitizeData receives                  *)
(*                                                                         *)
(* sanitizeData takes a value of type unknown, so a value of the main      *)
(* process carries its JavaScript type in the field t.  A string is a      *)
(* sequence of characters, an array a sequence of values, an object a      *)
(* function from its own keys to values.  The numbers are the integers and *)
(* NaN (the result of a parseFloat that finds no number).                  *)
(***************************************************************************)
Undefined == [t |-> "undefined"]

JsNull == [t |-> "null"]

JsBool(b) == [t |-> "boolean", b |-> b]

JsNum(n) == [t |-> "number", n |-> n]

NaN == [t |-> "number", nan |-> TRUE]

JsStr(s) == [t |-> "string", s |-> s]

JsArr(a) == [t |-> "array", a |-> a]

JsObj(o) == [t |-> "object", o |-> o]

\* The object literal {}.
EmptyObject == [key \in {} |-> Undefined]

\* The typeof operator.
typeof(v) == IF v.t \in {"array", "null"} THEN "object" ELSE v.t

\* Array.isArray
isArray(v) == v.t = "array"

\* typeof v === "number" && Number.isFinite(v)
isFinite(v) == v.t = "number" /\ "n" \in DOMAIN v

\* v[key].  An own key gives its value; a key the value does not carry
\* gives undefined (sanitizeData reads no inherited property).  To read a
\* property of null or undefined throws a TypeError: those values have no
\* field o, and the evaluation stops.
Get(v, key) ==
  IF v.t \in {"array", "number", "string", "boolean"} THEN Undefined
  ELSE IF key \in DOMAIN v.o THEN v.o[key] ELSE Undefined

\* Date.prototype.toISOString of the clock reading t.
RECURSIVE DecimalDigits(_)
DecimalDigits(n) ==
  IF n < 10 THEN <<Digits[n + 1]>>
  ELSE DecimalDigits(n \div 10) \o <<Digits[(n % 10) + 1]>>

toISOString(t) == <<"T">> \o DecimalDigits(t)

Light == <<"l", "i", "g", "h", "t">>

Dark == <<"d", "a", "r", "k">>

\* The tracker lists of the main process in the order sanitizeData builds
\* them (12: this version of main.ts has no water category).
MainTrackerOrder ==
  <<"weight", "fasting", "carbs", "calories", "workouts", "steps", "sleep",
    "mood", "homework", "cleaning", "substances", "entertainment">>

MainTrackerKeys == {MainTrackerOrder[i] : i \in 1..Len(MainTrackerOrder)}

\* The meta lists in the order sanitizeData builds them.
MetaListOrder ==
  <<"workouts", "subjects", "children", "chores", "substances", "entertainment">>

\* createDefaultData of main.ts, at the clock reading t.
createDefaultDataMain(t) ==
  JsObj([version |-> JsNum(2),
         settings |->
           JsObj([theme |-> JsStr(Light),
                  startingWeightLbs |-> JsNull,
                  dietStartDate |-> JsNull,
                  weightLossPerWeekLbs |-> JsNull,
                  weightGoalLbs |-> JsNull,
                  carbLimitPerDay |-> JsNull,
                  calorieLimitPerDay |-> JsNull,
                  dailyStepsGoal |-> JsNull,
                  desiredSleepHours |-> JsNull]),
         meta |-> JsObj([l \in MetaListKeys |-> JsArr(<<>>)]),
         trackers |-> JsObj([k \in MainTrackerKeys |-> JsArr(<<>>)]),
         updatedAt |-> JsStr(toISOString(t))])

isRecord(value) == typeof(value) = "object" /\ value # JsNull

\* makeId(): `${Date.now()}-${Math.random()...}`, the n-th identifier the
\* main process makes.
makeId(n) == <<"m", Digits[(n \div 10) + 1], Digits[(n % 10) + 1]>>

\* DISPLAY_DATE_REGEX.test(s) of main.ts:
\* /^(0[1-9]|1[0-2])\/(0[1-9]|[12]\d|3[01])\/\d{4}$/
DisplayDateRegexTest(s) ==
  /\ Len(s) = 10
  /\ s[3] = "/"
  /\ s[6] = "/"
  /\ \/ s[1] = "0" /\ IsDigit(s[2]) /\ s[2] # "0"
     \/ s[1] = "1" /\ s[2] \in {"0", "1", "2"}
  /\ \/ s[4] = "0" /\ IsDigit(s[5]) /\ s[5] # "0"
     \/ s[4] \in {"1", "2"} /\ IsDigit(s[5])
     \/ s[4] = "3" /\ s[5] \in {"0", "1"}
  /\ \A i \in 7..10 : IsDigit(s[i])

parseDate(value) ==
  IF typeof(value) # "string" \/ ~DisplayDateRegexTest(value.s)
  THEN JsNull
  ELSE value

\* The longest prefix of s made of decimal digits.
RECURSIVE DigitPrefix(_)
DigitPrefix(s) ==
  IF s = <<>> \/ ~IsDigit(Head(s)) THEN <<>>
  ELSE <<Head(s)>> \o DigitPrefix(Tail(s))

RECURSIVE DecimalValue(_)
DecimalValue(ds) ==
  IF ds = <<>> THEN 0
  ELSE 10 * DecimalValue(SubSeq(ds, 1, Len(ds) - 1)) + (CharCodes[ds[Len(ds)]] - 48)

\* Number.parseFloat on a trimmed string over the characters of the model
\* (no ".", "e", "+" or "Infinity"): an optional "-", then the longest
\* prefix of digits; NaN when there is no digit.
parseFloat(s) ==
  LET negative == s # <<>> /\ Head(s) = "-"
      digits == DigitPrefix(IF negative THEN Tail(s) ELSE s)
  IN  IF digits = <<>> THEN NaN
      ELSE JsNum(IF negative THEN 0 - DecimalValue(digits) ELSE DecimalValue(digits))

\* A parseRangedNumber that clamps a number out of range to the nearer bound.
parseRangedNumber_Clamps(value, min, max, fallback) ==
  IF isFinite(value) THEN JsNum(IF value.n < min THEN min ELSE IF value.n > max THEN max ELSE value.n)
  ELSE JsNum(fallback)

parseRangedNumber(value, min, max, fallback) ==
  IF isFinite(value) /\ value.n >= min /\ value.n <= max THEN value
  ELSE IF typeof(value) = "string" /\ trim(value.s) # <<>>
          /\ (\E parsed \in {parseFloat(trim(value.s))} :
                isFinite(parsed) /\ parsed.n >= min /\ parsed.n <= max)
       THEN parseFloat(trim(value.s))
       ELSE JsNum(fallback)

parseOptionalNumber(value) == IF isFinite(value) THEN value ELSE JsNull

parseOptionalNonNegativeNumber(value) ==
  LET parsed == parseOptionalNumber(value)
  IN  IF parsed = JsNull \/ parsed.n < 0 THEN JsNull ELSE parsed

parseOptionalRangedNumber(value, min, max) ==
  LET parsed == parseOptionalNumber(value)
  IN  IF parsed = JsNull \/ parsed.n < min \/ parsed.n > max THEN JsNull ELSE parsed

parseText(value) ==
  IF typeof(value) = "string" THEN JsStr(trim(value.s)) ELSE JsStr(<<>>)

\* The Set of parseStringList after the first k items, in insertion order.
RECURSIVE unique(_, _)
unique(items, k) ==
  IF k = 0 THEN <<>>
  ELSE LET before == unique(items, k - 1)
           item == items[k]
       IN  IF typeof(item) = "string" /\ Len(trim(item.s)) > 0
              /\ ~includes(before, JsStr(trim(item.s)))
           THEN Append(before, JsStr(trim(item.s)))
           ELSE before

parseStringList(value) ==
  IF ~isArray(value) THEN JsArr(<<>>)
  ELSE JsArr(unique(value.a, Len(value.a)))

\* A parseBaseEntry that makes an identifier for every entry.
parseBaseEntry_AlwaysNewId(entry, n) ==
  IF ~isRecord(entry) THEN [base |-> JsNull, n |-> n]
  ELSE LET date == parseDate(Get(entry, "date"))
       IN  IF date = JsNull THEN [base |-> JsNull, n |-> n]
           ELSE [base |-> JsObj([id |-> JsStr(makeId(n)), date |-> date]),
                 n |-> n + 1]

\* parseBaseEntry, with n identifiers made before the call: the base (or
\* null) and the number of identifiers made after it.
parseBaseEntry(entry, n) ==
  IF ~isRecord(entry) THEN [base |-> JsNull, n |-> n]
  ELSE LET date == parseDate(Get(entry, "date"))
           id == Get(entry, "id")
       IN  IF date = JsNull THEN [base |-> JsNull, n |-> n]
           ELSE IF typeof(id) = "string" /\ Len(trim(id.s)) > 0
                THEN [base |-> JsObj([id |-> id, date |-> date]), n |-> n]
                ELSE [base |-> JsObj([id |-> JsStr(makeId(n)), date |-> date]),
                      n |-> n + 1]

\* The Map byId of sanitizeMetaList after the first k items (its values in
\* insertion order) and the number of identifiers made.
RECURSIVE byId(_, _, _)
byId(items, k, n) ==
  IF k = 0 THEN [values |-> <<>>, n |-> n]
  ELSE LET before == byId(items, k - 1, n)
           item == items[k]
           name == parseText(Get(item, "name"))
           kept == typeof(Get(item, "id")) = "string"
                     /\ Len(trim(Get(item, "id").s)) > 0
           id == IF kept THEN Get(item, "id") ELSE JsStr(makeId(before.n))
           made == IF kept THEN before.n ELSE before.n + 1
       IN  IF ~isRecord(item) THEN before
           ELSE IF name.s = <<>> THEN before
           ELSE IF \E j \in 1..Len(before.values) : before.values[j].o.id = id
                THEN [values |-> before.values, n |-> made]
                ELSE [values |-> Append(before.values, JsObj([id |-> id, name |-> name])),
                      n |-> made]

sanitizeMetaList(value, n) ==
  IF ~isArray(value) THEN [list |-> JsArr(<<>>), n |-> n]
  ELSE LET map == byId(value.a, Len(value.a), n)
       IN  [list |-> JsArr(map.values), n |-> map.n]

\* A getRawEntryList that reads the entertainment key for carbs when no
\* entry is under the carbs key.
getRawEntryList_LegacyFallback(trackersRaw, key) ==
  IF isArray(Get(trackersRaw, key)) /\ (key # "carbs" \/ Get(trackersRaw, key).a # <<>>)
  THEN Get(trackersRaw, key).a
  ELSE IF key = "carbs" /\ isArray(Get(trackersRaw, "entertainment"))
  THEN Get(trackersRaw, "entertainment").a
  ELSE <<>>

getRawEntryList(trackersRaw, key) ==
  IF isArray(Get(trackersRaw, key)) THEN Get(trackersRaw, key).a ELSE <<>>

\* The activities of a workouts or entertainment entry.
activities(entry) ==
  IF isArray(Get(entry, "activities"))
  THEN LET raw == Get(entry, "activities").a
           mapped == [i \in 1..Len(raw) |->
                        LET activity == raw[i]
                            metaId == parseText(Get(activity, "metaId"))
                        IN  IF ~isRecord(activity) THEN JsNull
                            ELSE IF metaId.s = <<>> THEN JsNull
                            ELSE JsObj([metaId |-> metaId,
                                        minutes |-> parseRangedNumber(Get(activity, "minutes"), 0, 1440, 0)])]
       IN  SelectSeq(mapped, LAMBDA activity : activity # JsNull)
  ELSE <<>>

\* The legacyActivities of an entertainment entry.
legacyActivities(entry) ==
  LET legacyIds == parseStringList(Get(entry, "entertainmentIds")).a
  IN  [i \in 1..Len(legacyIds) |-> JsObj([metaId |-> legacyIds[i], minutes |-> JsNum(0)])]

\* The fields a category adds to the base of an entry.
entryFields(key, entry) ==
  CASE key = "weight" ->
         [weightLbs |-> parseRangedNumber(Get(entry, "weightLbs"), 0, 3000, 0)]
    [] key = "fasting" ->
         [hours |-> parseRangedNumber(Get(entry, "hours"), 0, 24, 0)]
    [] key = "carbs" ->
         [carbs |-> parseRangedNumber(Get(entry, "carbs"), 0, 500, 0),
          notes |-> parseText(Get(entry, "notes"))]
    [] key = "calories" ->
         [calories |-> parseRangedNumber(Get(entry, "calories"), 0, 50000, 0),
          notes |-> parseText(Get(entry, "notes"))]
    [] key = "workouts" ->
         [activities |-> JsArr(activities(entry))]
    [] key = "steps" ->
         [steps |-> parseRangedNumber(Get(entry, "steps"), 0, 200000, 0)]
    [] key = "sleep" ->
         [sleepTime |-> parseText(Get(entry, "sleepTime")),
          wakeTime |-> parseText(Get(entry, "wakeTime"))]
    [] key = "mood" ->
         [moodStart |-> parseRangedNumber(Get(entry, "moodStart"), 0, 10, 0),
          moodEnd |-> parseRangedNumber(Get(entry, "moodEnd"), 0, 10, 0),
          notes |-> parseText(Get(entry, "notes"))]
    [] key = "homework" ->
         [subjectId |-> parseText(Get(entry, "subjectId")),
          childId |-> parseText(Get(entry, "childId")),
          minutes |-> parseRangedNumber(Get(entry, "minutes"), 0, 1440, 0),
          notes |-> parseText(Get(entry, "notes"))]
    [] key = "cleaning" ->
         [choreIds |-> parseStringList(Get(entry, "choreIds")),
          notes |-> parseText(Get(entry, "notes"))]
    [] key = "substances" ->
         [substanceIds |-> parseStringList(Get(entry, "substanceIds")),
          notes |-> parseText(Get(entry, "notes"))]
    [] key = "entertainment" ->
         [activities |->
            IF Len(activities(entry)) > 0
            THEN JsArr(activities(entry))
            ELSE JsArr(legacyActivities(entry))]

\* A mapEntries that gives up the whole list when one element fails its
\* base check.
mapEntries_RejectsList(trackersRaw, key, n) ==
  LET entries == getRawEntryList(trackersRaw, key)
      made(i) == Cardinality({j \in 1..(i - 1) : parseBaseEntry(entries[j], 0).n = 1})
      mapped == [i \in 1..Len(entries) |->
                   LET entry == entries[i]
                       base == parseBaseEntry(entry, n + made(i)).base
                   IN  IF base = JsNull \/ ~isRecord(entry) THEN JsNull
                       ELSE JsObj(base.o @@ entryFields(key, entry))]
  IN  IF \E i \in 1..Len(mapped) : mapped[i] = JsNull
      THEN [list |-> JsArr(<<>>), n |-> n]
      ELSE [list |-> JsArr(mapped), n |-> n + made(Len(entries) + 1)]

\* getRawEntryList(trackersRaw, key).map(...).filter(entry => entry !== null)
\* with n identifiers made before: the i-th entry is parsed after the
\* identifiers of the entries before it were made.
mapEntries(trackersRaw, key, n) ==
  LET entries == getRawEntryList(trackersRaw, key)
      made(i) == Cardinality({j \in 1..(i - 1) : parseBaseEntry(entries[j], 0).n = 1})
      mapped == [i \in 1..Len(entries) |->
                   LET entry == entries[i]
                       base == parseBaseEntry(entry, n + made(i)).base
                   IN  IF base = JsNull \/ ~isRecord(entry) THEN JsNull
                       ELSE JsObj(base.o @@ entryFields(key, entry))]
  IN  [list |-> JsArr(SelectSeq(mapped, LAMBDA entry : entry # JsNull)),
       n |-> n + made(Len(entries) + 1)]

\* The settings of sanitizeData.
sanitizeSettings(settingsRaw) ==
  JsObj([theme |-> IF Get(settingsRaw, "theme") = JsStr(Dark) THEN JsStr(Dark) ELSE JsStr(Light),
         startingWeightLbs |-> parseOptionalNonNegativeNumber(Get(settingsRaw, "startingWeightLbs")),
         dietStartDate |-> parseDate(Get(settingsRaw, "dietStartDate")),
         weightLossPerWeekLbs |-> parseOptionalNonNegativeNumber(Get(settingsRaw, "weightLossPerWeekLbs")),
         weightGoalLbs |-> parseOptionalNonNegativeNumber(Get(settingsRaw, "weightGoalLbs")),
         carbLimitPerDay |-> parseOptionalNonNegativeNumber(Get(settingsRaw, "carbLimitPerDay")),
         calorieLimitPerDay |-> parseOptionalNonNegativeNumber(Get(settingsRaw, "calorieLimitPerDay")),
         dailyStepsGoal |-> parseOptionalNonNegativeNumber(Get(settingsRaw, "dailyStepsGoal")),
         desiredSleepHours |-> parseOptionalRangedNumber(Get(settingsRaw, "desiredSleepHours"), 3, 12)])

\* The meta lists of sanitizeData for the keys given, in their order, with
\* n identifiers made before.
RECURSIVE sanitizeMetaLists(_, _, _)
\* The list of the first key put before the lists of the other keys.
listsWith(key, first, rest) ==
  [lists |-> (key :> first.list) @@ rest.lists, n |-> rest.n]

\* The lists for the keys given the list made for the first key.
metaListsFrom(metaRaw, keys, first) ==
  listsWith(Head(keys), first, sanitizeMetaLists(metaRaw, Tail(keys), first.n))

sanitizeMetaLists(metaRaw, keys, n) ==
  IF keys = <<>> THEN [lists |-> EmptyObject, n |-> n]
  ELSE metaListsFrom(metaRaw, keys, sanitizeMetaList(Get(metaRaw, Head(keys)), n))

\* The object that holds the lists made.
sectionOf(made) == [value |-> JsObj(made.lists), n |-> made.n]

\* The meta of sanitizeData, with n identifiers made before.
sanitizeMeta(metaRaw, n) == sectionOf(sanitizeMetaLists(metaRaw, MetaListOrder, n))

\* The tracker lists of sanitizeData for the keys given, in their order,
\* with n identifiers made before.
RECURSIVE sanitizeTrackerLists(_, _, _)
\* The lists for the keys given the list made for the first key.
trackerListsFrom(trackersRaw, keys, first) ==
  listsWith(Head(keys), first, sanitizeTrackerLists(trackersRaw, Tail(keys), first.n))

sanitizeTrackerLists(trackersRaw, keys, n) ==
  IF keys = <<>> THEN [lists |-> EmptyObject, n |-> n]
  ELSE trackerListsFrom(trackersRaw, keys, mapEntries(trackersRaw, Head(keys), n))

\* The twelve tracker lists of sanitizeData, with n identifiers made before.
sanitizeTrackers(trackersRaw, n) ==
  sectionOf(sanitizeTrackerLists(trackersRaw, MainTrackerOrder, n))

\* The return value of sanitizeData: the Document of the sections made and
\* the number of identifiers made.
documentOf(settings, meta, trackers, t) ==
  [value |-> JsObj([version |-> JsNum(2),
                    settings |-> settings,
                    meta |-> meta.value,
                    trackers |-> trackers.value,
                    updatedAt |-> JsStr(toISOString(t))]),
   n |-> trackers.n]

\* sanitizeData after the meta lists were made: the settings and the tracker
\* lists, and the return value.
sanitizedWithMeta(settingsRaw, trackersRaw, meta, t) ==
  documentOf(sanitizeSettings(settingsRaw), meta, sanitizeTrackers(trackersRaw, meta.n), t)

\* A sanitizeData that returns the defaults as soon as one section is not
\* an object.
sanitizeData_RejectsPartial(value, t, n) ==
  IF ~isRecord(value) \/ ~isRecord(Get(value, "settings"))
     \/ ~isRecord(Get(value, "meta")) \/ ~isRecord(Get(value, "trackers"))
  THEN [value |-> createDefaultDataMain(t), n |-> n]
  ELSE sanitizedWithMeta(Get(value, "settings"), Get(value, "trackers"),
                         sanitizeMeta(Get(value, "meta"), n), t)

\* sanitizeData(value) at the clock reading t, with n identifiers made
\* before the call: the Document and the number of identifiers made after.
sanitizeData(value, t, n) ==
  IF ~isRecord(value) THEN [value |-> createDefaultDataMain(t), n |-> n]
  ELSE LET settingsRaw == IF isRecord(Get(value, "settings")) THEN Get(value, "settings") ELSE JsObj(EmptyObject)
           metaRaw == IF isRecord(Get(value, "meta")) THEN Get(value, "meta") ELSE JsObj(EmptyObject)
           trackersRaw == IF isRecord(Get(value, "trackers")) THEN Get(value, "trackers") ELSE JsObj(EmptyObject)
       IN  sanitizedWithMeta(settingsRaw, trackersRaw, sanitizeMeta(metaRaw, n), t)

(***************************************************************************)
(* The renderer as a state machine: data is the React state of             *)
(* AppDataProvider, now the clock, idCounter the number of identifiers     *)
(* drawn, lastCall the last callback and the value it returned.            *)
(***************************************************************************)
Called(op, r) == [op |-> op, ret |-> r.ret, changed |-> r.data # data]

\* No date was typed.
InitDateVars ==
  /\ dateText = <<>>
  /\ isoText = <<>>
  /\ displayText = <<>>

\* The Document was loaded and saved, and no error is shown.
InitSaveVars ==
  /\ loading = FALSE
  /\ error = Null
  /\ timer = <<>>
  /\ timers = {}
  /\ saves = <<>>
  /\ changes = <<>>

\* No call to the main process was made; the data file is not looked at.
NoCall == [op |-> "none"]

InitFileVars ==
  /\ file = [json |-> FALSE]
  /\ ipc = NoCall

Init ==
  /\ data = createDefaultData(0)
  /\ now = 0
  /\ idCounter = 0
  /\ lastCall = [op |-> "none", ret |-> Void, changed |-> FALSE]
  /\ input = Undefined
  /\ sanitized = <<>>
  /\ madeIds = 0
  /\ InitDateVars
  /\ InitSaveVars
  /\ InitFileVars

Tick ==
  /\ now < MaxTime
  /\ now' = now + 1
  /\ UNCHANGED <<data, idCounter, lastCall>>
  /\ UNCHANGED nonRendererVars

addTrackerEntry(keys, dates) ==
  \E trackerKey \in keys, date \in dates :
    \E entry \in NewEntryInputs(data, trackerKey, date) :
      \E r \in {addTrackerEntryCall(data, trackerKey, entry, nextId(idCounter), now)} :
          /\ isDisplayDate(entry.date) => idCounter < MaxIds
          /\ data' = r.data
          /\ idCounter' = IF isDisplayDate(entry.date) THEN idCounter + 1 ELSE idCounter
          /\ lastCall' = Called("addTrackerEntry", r)
          /\ UNCHANGED now
          /\ UNCHANGED nonRendererVars

removeTrackerEntry(keys) ==
  \E trackerKey \in keys, entryId \in IdInputs :
    \E r \in {removeTrackerEntryCall(data, trackerKey, entryId, now)} :
        /\ data' = r.data
        /\ lastCall' = Called("removeTrackerEntry", r)
        /\ UNCHANGED <<now, idCounter>>
        /\ UNCHANGED nonRendererVars

clearAllTrackerEntries ==
  \E r \in {clearAllTrackerEntriesCall(data, now)} :
      /\ data' = r.data
      /\ lastCall' = Called("clearAllTrackerEntries", r)
      /\ UNCHANGED <<now, idCounter>>
      /\ UNCHANGED nonRendererVars

clearTrackerEntriesBefore(dates) ==
  \E beforeDate \in dates :
    \E r \in {clearTrackerEntriesBeforeCall(data, beforeDate, now)} :
        /\ data' = r.data
        /\ lastCall' = Called("clearTrackerEntriesBefore", r)
        /\ UNCHANGED <<now, idCounter>>
        /\ UNCHANGED nonRendererVars

updateSettings ==
  \E settings \in SettingsInputs :
    \E r \in {updateSettingsCall(data, settings, now)} :
        /\ data' = r.data
        /\ lastCall' = Called("updateSettings", r)
        /\ UNCHANGED <<now, idCounter>>
        /\ UNCHANGED nonRendererVars

addMetaItem(lists, names) ==
  \E listKey \in lists, name \in names :
    \E r \in {addMetaItemCall(data, listKey, name, nextId(idCounter), now)} :
        /\ r.ret.value => idCounter < MaxIds
        /\ data' = r.data
        /\ idCounter' = IF r.ret.value THEN idCounter + 1 ELSE idCounter
        /\ lastCall' = Called("addMetaItem", r)
        /\ UNCHANGED now
        /\ UNCHANGED nonRendererVars

renameMetaItem(lists, names) ==
  \E listKey \in lists, itemId \in IdInputs, name \in names :
    \E r \in {renameMetaItemCall(data, listKey, itemId, name, now)} :
        /\ data' = r.data
        /\ lastCall' = Called("renameMetaItem", r)
        /\ UNCHANGED <<now, idCounter>>
        /\ UNCHANGED nonRendererVars

removeMetaItem(lists) ==
  \E listKey \in lists, itemId \in IdInputs :
    \E r \in {removeMetaItemCall(data, listKey, itemId, now)} :
        /\ data' = r.data
        /\ lastCall' = Called("removeMetaItem", r)
        /\ UNCHANGED <<now, idCounter>>
        /\ UNCHANGED nonRendererVars

(***************************************************************************)
(* Spec: a session on the chores and substances lists and the weight,      *)
(* cleaning and substances trackers, with every callback of the API.       *)
(***************************************************************************)
SessionKeys == {"weight", "cleaning", "substances"}

SessionLists == {"chores", "substances"}

SessionDates == {Date20240102, BadDate}

Next ==
  \/ Tick
  \/ addTrackerEntry(SessionKeys, SessionDates)
  \/ removeTrackerEntry(SessionKeys)
  \/ clearAllTrackerEntries
  \/ clearTrackerEntriesBefore({Date20240103, BadDate})
  \/ updateSettings
  \/ addMetaItem(SessionLists, NameInputs)
  \/ renameMetaItem(SessionLists, NameInputs)
  \/ removeMetaItem(SessionLists)

Spec == Init /\ [][Next]_vars

(***************************************************************************)
(* SpecUsage: every meta list and every tracker that references one.       *)
(***************************************************************************)
ReferencingKeys == {"workouts", "homework", "cleaning", "substances", "entertainment"}

NextUsage ==
  \/ Tick
  \/ addMetaItem(MetaListKeys, {<<"a">>})
  \/ addTrackerEntry(ReferencingKeys, {Date20240102})
  \/ removeTrackerEntry(ReferencingKeys)
  \/ removeMetaItem(MetaListKeys)

SpecUsage == Init /\ [][NextUsage]_vars

(***************************************************************************)
(* SpecTrackers: entries of every tracker category and the bulk deletes.   *)
(***************************************************************************)
NextTrackers ==
  \/ Tick
  \/ addTrackerEntry(TrackerCategories, {Date20231231, Date20240103})
  \/ clearAllTrackerEntries
  \/ clearTrackerEntriesBefore({Date20240102, Date20240103, BadDate})

SpecTrackers == Init /\ [][NextTrackers]_vars

(***************************************************************************)
(* Properties of the mutation API.  A property of a callback is stated on  *)
(* the call applied to the current Document, for every input.              *)
(***************************************************************************)
EntryIds(d, trackerKey) ==
  {d.trackers[trackerKey][i].id : i \in 1..Len(d.trackers[trackerKey])}

AllEntryIds(d) == UNION {EntryIds(d, k) : k \in TrackerCategories}

TotalEntries(d) ==
  Cardinality(UNION {{<<k, i>> : i \in 1..Len(d.trackers[k])} : k \in TrackerCategories})

\* The calendar day of a display date MM/DD/YYYY as the number YYYYMMDD.
DayNumber(date) ==
  LET v(i) == CharCode(date[i]) - 48
  IN  (v(7) * 1000 + v(8) * 100 + v(9) * 10 + v(10)) * 10000
      + (v(1) * 10 + v(2)) * 100 + v(4) * 10 + v(5)

\* C1: while the usage count of (list, id) is greater than 0,
\* removeMetaItem returns ok=false with a reason and leaves the Document
\* unchanged, the item still in its list; with a usage count of 0 and the
\* item in the list it returns ok=true and the item is no longer in the list.
C1_UsageGate ==
  \A listKey \in MetaListKeys, itemId \in IdInputs :
    LET r == removeMetaItemCall(data, listKey, itemId, now)
        usageCount == getMetaItemUsageCount(data, listKey, itemId)
    IN  /\ usageCount > 0 =>
             /\ r.ret.ok = FALSE
             /\ r.ret.reason # ""
             /\ r.data = data
             /\ itemId \in ItemIds(r.data, listKey)
        /\ (usageCount = 0 /\ itemId \in ItemIds(data, listKey)) =>
             /\ r.ret.ok = TRUE
             /\ itemId \notin ItemIds(r.data, listKey)

\* removeMetaItem has just refused to delete an item that an entry uses.
C1_Witness ==
  /\ lastCall.op = "removeMetaItem"
  /\ lastCall.ret.ok = FALSE
  /\ lastCall.ret.reason = ReasonInUse
  /\ \E listKey \in MetaListKeys :
       \E itemId \in ItemIds(data, listKey) :
         getMetaItemUsageCount(data, listKey, itemId) > 0

\* C2: every meta list holds only names that are non-empty after trimming,
\* and no two items of one list have names that are equal without regard
\* to case.
C2_MetaNames ==
  \A listKey \in MetaListKeys :
    LET items == data.meta[listKey]
    IN  /\ \A i \in 1..Len(items) : trim(items[i].name) # <<>>
        /\ \A i, j \in 1..Len(items) :
             i # j => toLowerCase(items[i].name) # toLowerCase(items[j].name)

\* A list of two items, one of them just renamed.
C2_Witness ==
  /\ lastCall.op = "renameMetaItem"
  /\ lastCall.ret.value = TRUE
  /\ \E listKey \in MetaListKeys : Len(data.meta[listKey]) = 2

\* The inputs that each callback of C3 rejects in the Document d.
NameTaken(d, listKey, name, exceptId) ==
  \E i \in 1..Len(d.meta[listKey]) :
    /\ d.meta[listKey][i].id # exceptId
    /\ toLowerCase(d.meta[listKey][i].name) = toLowerCase(trim(name))

NoId == <<>>

RejectedAddMeta(d, listKey, name) ==
  trim(name) = <<>> \/ NameTaken(d, listKey, name, NoId)

RejectedRename(d, listKey, itemId, name) ==
  \/ trim(name) = <<>>
  \/ NameTaken(d, listKey, name, itemId)
  \/ itemId \notin ItemIds(d, listKey)

RejectedRemoveMeta(d, listKey, itemId) ==
  getMetaItemUsageCount(d, listKey, itemId) > 0 \/ itemId \notin ItemIds(d, listKey)

\* The calls of C3 on their rejected inputs, each with its name.
RejectedCalls ==
     {[op |-> "addTrackerEntry",
       r |-> addTrackerEntryCall(data, c[1], c[2], nextId(idCounter), now)] :
        c \in UNION {{<<k, e>> : e \in NewEntryInputs(data, k, BadDate)} :
                       k \in TrackerCategories}}
  \cup
     {[op |-> "addMetaItem", r |-> addMetaItemCall(data, c[1], c[2], nextId(idCounter), now)] :
        c \in {c \in MetaListKeys \X NameInputs : RejectedAddMeta(data, c[1], c[2])}}
  \cup
     {[op |-> "renameMetaItem", r |-> renameMetaItemCall(data, c[1], c[2], c[3], now)] :
        c \in {c \in MetaListKeys \X IdInputs \X NameInputs :
                 RejectedRename(data, c[1], c[2], c[3])}}
  \cup
     {[op |-> "removeMetaItem", r |-> removeMetaItemCall(data, c[1], c[2], now)] :
        c \in {c \in MetaListKeys \X IdInputs : RejectedRemoveMeta(data, c[1], c[2])}}
  \cup
     {[op |-> "clearTrackerEntriesBefore",
       r |-> clearTrackerEntriesBeforeCall(data, BadDate, now)]}

\* The return value says that the call was refused.
ReportsRejection(ret) ==
  \/ ret.type = "boolean" /\ ret.value = FALSE
  \/ ret.type = "object" /\ ret.ok = FALSE /\ ret.reason # ""
  \/ ret.type = "number" /\ ret.value = 0

\* C3 as claimed: every rejected mutation leaves the Document identical,
\* updatedAt included, and reports the rejection as a return value.
C3_RejectedReported ==
  \A c \in RejectedCalls : c.r.data = data /\ ReportsRejection(c.r.ret)

\* C3 as amended: every rejected mutation leaves the Document identical,
\* updatedAt included; the rejection is reported as a return value by every
\* callback except addTrackerEntry, which returns nothing.
C3_RejectedUnchanged ==
  \A c \in RejectedCalls :
    /\ c.r.data = data
    /\ IF c.op = "addTrackerEntry" THEN c.r.ret = Void ELSE ReportsRejection(c.r.ret)

\* renameMetaItem has just been refused because another item of a list of
\* two holds the name, at a time later than the last stamp.
C3_Witness ==
  /\ lastCall.op = "renameMetaItem"
  /\ lastCall.ret.value = FALSE
  /\ ~lastCall.changed
  /\ now > data.updatedAt
  /\ \E listKey \in MetaListKeys : Len(data.meta[listKey]) = 2

\* C4: for an entry with a valid date, addTrackerEntry makes the list of the
\* category the new entry (the given fields and an id that no entry
\* carries) followed by the previous list; every other category, the meta
\* lists and the settings are unchanged.
C4_AddPrepends ==
  \A trackerKey \in TrackerCategories, date \in ValidDates :
    \A entry \in NewEntryInputs(data, trackerKey, date) :
      LET r == addTrackerEntryCall(data, trackerKey, entry, nextId(idCounter), now)
          list == r.data.trackers[trackerKey]
      IN  /\ Len(list) = Len(data.trackers[trackerKey]) + 1
          /\ DOMAIN list[1] = DOMAIN entry \cup {"id"}
          /\ \A f \in DOMAIN entry : list[1][f] = entry[f]
          /\ list[1].id \notin AllEntryIds(data)
          /\ Tail(list) = data.trackers[trackerKey]
          /\ \A k \in TrackerCategories \ {trackerKey} :
               r.data.trackers[k] = data.trackers[k]
          /\ r.data.meta = data.meta
          /\ r.data.settings = data.settings

\* An entry has just been added in front of an earlier one.
C4_Witness ==
  /\ lastCall.op = "addTrackerEntry"
  /\ lastCall.changed
  /\ \E k \in TrackerCategories : Len(data.trackers[k]) = 2

\* C5: removeTrackerEntry with the id that the addTrackerEntry just before
\* it generated restores every tracker list to the list before the add.
C5_AddThenRemove ==
  \A trackerKey \in TrackerCategories, date \in ValidDates :
    \A entry \in NewEntryInputs(data, trackerKey, date) :
      LET id == nextId(idCounter)
          added == addTrackerEntryCall(data, trackerKey, entry, id, now).data
          removed == removeTrackerEntryCall(added, trackerKey, id, now).data
      IN  /\ removed.trackers = data.trackers
          /\ TotalEntries(data) = 0 => TotalEntries(removed) = 0

\* An entry was added to a Document that held one entry and removed again.
C5_Witness ==
  /\ lastCall.op = "removeTrackerEntry"
  /\ idCounter = 2
  /\ TotalEntries(data) = 1
  /\ \A listKey \in MetaListKeys : data.meta[listKey] = <<>>

\* C6 as claimed: removeTrackerEntry with an id that no entry of the
\* category carries yields a Document equal to the one before the call,
\* updatedAt included.
C6_RemoveUnknownIsNoOp ==
  \A trackerKey \in TrackerCategories, entryId \in IdInputs :
    entryId \notin EntryIds(data, trackerKey) =>
      removeTrackerEntryCall(data, trackerKey, entryId, now).data = data

C8_ClearBefore ==
  \A c \in ValidDates :
    LET r == clearTrackerEntriesBeforeCall(data, c, now)
        kept(k) == SelectSeq(data.trackers[k],
                             LAMBDA e : DayNumber(e.date) >= DayNumber(c))
    IN  /\ \A k \in TrackerCategories : r.data.trackers[k] = kept(k)
        /\ r.ret = Num(TotalEntries(data) - TotalEntries(r.data))
        /\ r.ret.value =
             Cardinality(UNION {{<<k, i>> : i \in {i \in 1..Len(data.trackers[k]) :
                                   DayNumber(data.trackers[k][i].date) < DayNumber(c)}} :
                                k \in TrackerCategories})

\* clearTrackerEntriesBefore has just removed an entry and kept an entry
\* dated 01/03/2024, the latest cutoff.
C8_Witness ==
  /\ lastCall.op = "clearTrackerEntriesBefore"
  /\ lastCall.ret.value >= 1
  /\ \E k \in TrackerCategories :
       \E i \in 1..Len(data.trackers[k]) : data.trackers[k][i].date = Date20240103

(***************************************************************************)
(* The values sanitizeData is applied to: what JSON.parse gives for a data *)
(* file or an imported file, and what the renderer sends to save.          *)
(***************************************************************************)
SeqsUpTo(S, n) == UNION {[1..k -> S] : k \in 0..n}

\* A number field: out of range, numeric strings, strings parseFloat reads
\* a prefix of or nothing of, NaN, null.
NumberInputs(max) ==
  {JsNum(0), JsNum(max \div 2), JsNum(max), JsNum(max + 1), JsNum(0 - 1),
   JsStr(<<"1", "2">>), JsStr(<<" ", "7", " ">>),
   JsStr(<<"1", "2", "a">>), JsStr(<<"a">>), JsStr(<<"-", "1">>), NaN, JsNull}

TextInputs == {JsStr(<<" ", "a", " ">>), JsNum(1), JsNull}

StringListInputs ==
  {JsArr(<<JsStr(<<"a">>), JsStr(<<" ", "a">>), JsStr(<<"b">>)>>),
   JsArr(<<JsStr(<<" ">>), JsNum(1), JsStr(<<"b">>)>>),
   JsStr(<<"a">>)}

ActivitiesInputs ==
  {JsArr(<<JsNull,
           JsObj([metaId |-> JsStr(<<" ", "a", " ">>), minutes |-> JsStr(<<"3", "0">>)]),
           JsObj([metaId |-> JsStr(<<" ">>), minutes |-> JsNum(5)]),
           JsObj([metaId |-> JsStr(<<"b">>), minutes |-> JsNum(1441)]),
           JsObj([minutes |-> JsNum(5)])>>),
   JsArr(<<JsObj([metaId |-> JsStr(<<"a">>), minutes |-> JsNum(0 - 1)]),
           JsObj([metaId |-> JsStr(<<"b">>), minutes |-> JsNum(720)]),
           JsObj([metaId |-> JsStr(<<"c">>), minutes |-> JsNum(1440)])>>),
   JsArr(<<JsNull>>),
   JsArr(<<>>),
   JsStr(<<"a">>)}

\* The fields of a well-formed entry of a category.
CleanFields(key) ==
  CASE key = "weight" -> [weightLbs |-> JsNum(180)]
    [] key = "fasting" -> [hours |-> JsNum(16)]
    [] key = "carbs" -> [carbs |-> JsNum(20), notes |-> JsStr(<<>>)]
    [] key = "calories" -> [calories |-> JsNum(500), notes |-> JsStr(<<>>)]
    [] key = "workouts" ->
         [activities |-> JsArr(<<JsObj([metaId |-> JsStr(<<"a">>), minutes |-> JsNum(30)])>>)]
    [] key = "steps" -> [steps |-> JsNum(1000)]
    [] key = "sleep" -> [sleepTime |-> JsStr(<<"1", "0">>), wakeTime |-> JsStr(<<"6">>)]
    [] key = "mood" -> [moodStart |-> JsNum(4), moodEnd |-> JsNum(6), notes |-> JsStr(<<>>)]
    [] key = "homework" ->
         [subjectId |-> JsStr(<<"a">>), childId |-> JsStr(<<"b">>),
          minutes |-> JsNum(30), notes |-> JsStr(<<>>)]
    [] key = "cleaning" -> [choreIds |-> JsArr(<<JsStr(<<"a">>)>>), notes |-> JsStr(<<>>)]
    [] key = "substances" -> [substanceIds |-> JsArr(<<JsStr(<<"a">>)>>), notes |-> JsStr(<<>>)]
    [] key = "entertainment" ->
         [activities |-> JsArr(<<JsObj([metaId |-> JsStr(<<"a">>), minutes |-> JsNum(30)])>>)]

\* Fields of a category as a damaged or hand-edited file can hold them.
DirtyFields(key) ==
  {EmptyObject} \cup
  CASE key = "weight" -> {[weightLbs |-> v] : v \in NumberInputs(3000)}
    [] key = "fasting" -> {[hours |-> v] : v \in NumberInputs(24)}
    [] key = "carbs" -> {[carbs |-> v, notes |-> x] : v \in NumberInputs(500), x \in TextInputs}
    [] key = "calories" -> {[calories |-> v, notes |-> JsNum(1)] : v \in NumberInputs(50000)}
    [] key = "workouts" -> {[activities |-> a] : a \in ActivitiesInputs}
    [] key = "steps" -> {[steps |-> v] : v \in NumberInputs(200000)}
    [] key = "sleep" -> {[sleepTime |-> x, wakeTime |-> y] : x \in TextInputs, y \in TextInputs}
    [] key = "mood" ->
         {[moodStart |-> v, moodEnd |-> JsNum(6)] : v \in NumberInputs(10)}
           \cup {[moodStart |-> JsNum(4), moodEnd |-> v, notes |-> JsNull] : v \in NumberInputs(10)}
    [] key = "homework" ->
         {[subjectId |-> x, childId |-> JsStr(<<"b">>), minutes |-> JsNum(30)] : x \in TextInputs}
           \cup {[subjectId |-> JsStr(<<"a">>), childId |-> x, minutes |-> v] :
                   x \in TextInputs, v \in NumberInputs(1440)}
    [] key = "cleaning" -> {[choreIds |-> l, notes |-> x] : l \in StringListInputs, x \in TextInputs}
    [] key = "substances" -> {[substanceIds |-> l] : l \in StringListInputs}
    [] key = "entertainment" ->
         {[activities |-> a] : a \in ActivitiesInputs}
           \cup {[entertainmentIds |-> l] : l \in StringListInputs}
           \cup {[activities |-> a, entertainmentIds |-> l] :
                   a \in ActivitiesInputs, l \in StringListInputs}

\* The elements the lists of length up to MaxLen are made of: an entry with
\* an id, one without, one with a blank id, one with an ISO date, and null.
ListEntryInputs(key) ==
  {JsObj([id |-> JsStr(<<"a">>), date |-> JsStr(Date20240102)] @@ CleanFields(key)),
   JsObj([date |-> JsStr(Date20240103)] @@ CleanFields(key)),
   JsObj([id |-> JsStr(<<" ">>), date |-> JsStr(Date20240102)] @@ CleanFields(key)),
   JsObj([id |-> JsStr(<<"a">>), date |-> JsStr(BadDate)] @@ CleanFields(key)),
   JsNull}

\* The elements of the lists of one element.
SingleEntryInputs(key) ==
  {JsObj([id |-> JsStr(<<" ", "a">>), date |-> JsStr(Date20240102)] @@ f) : f \in DirtyFields(key)}
    \cup {JsObj([id |-> JsNum(7), date |-> JsStr(Date20240102)] @@ CleanFields(key)),
          JsObj([id |-> JsStr(<<"a">>)] @@ CleanFields(key)),
          JsObj([id |-> JsStr(<<"a">>), date |-> JsNum(1)] @@ CleanFields(key)),
          JsArr(<<>>),
          JsStr(Date20240102)}

TrackerListInputs(key) ==
  {JsArr(l) : l \in SeqsUpTo(ListEntryInputs(key), MaxLen)}
    \cup {JsArr(<<e>>) : e \in SingleEntryInputs(key)}
    \cup {JsNull, JsObj(EmptyObject)}

ItemA == JsObj([id |-> JsStr(<<"a">>), name |-> JsStr(<<"a">>)])

ItemNoId == JsObj([name |-> JsStr(<<" ", "b", " ">>)])

\* The elements the meta lists of length up to MaxLen are made of: an item,
\* one with the same id, one without id, one with a blank id, one with a
\* blank name, and null.
ListItemInputs ==
  {ItemA,
   JsObj([id |-> JsStr(<<"a">>), name |-> JsStr(<<"b">>)]),
   ItemNoId,
   JsObj([id |-> JsStr(<<" ">>), name |-> JsStr(<<"A">>)]),
   JsObj([id |-> JsStr(<<"b">>), name |-> JsStr(<<" ">>)]),
   JsNull}

SingleItemInputs ==
  {JsStr(<<"a">>),
   JsArr(<<>>),
   JsObj([id |-> JsNum(1), name |-> JsStr(<<"a">>)]),
   JsObj([id |-> JsStr(<<" ", "a">>), name |-> JsStr(<<"a">>)]),
   JsObj([id |-> JsStr(<<"b">>), name |-> JsNum(1)]),
   JsObj([id |-> JsStr(<<"b">>)])}

MetaListInputs ==
  {JsArr(l) : l \in SeqsUpTo(ListItemInputs, MaxLen)}
    \cup {JsArr(<<e>>) : e \in SingleItemInputs}
    \cup {JsNull, JsStr(<<"a">>), JsObj(EmptyObject)}

\* Settings as the settings page saves them.
CleanSettings ==
  [theme |-> JsStr(Dark),
   startingWeightLbs |-> JsNum(200),
   dietStartDate |-> JsStr(Date20240102),
   weightLossPerWeekLbs |-> JsNum(2),
   weightGoalLbs |-> JsNum(150),
   carbLimitPerDay |-> JsNum(20),
   calorieLimitPerDay |-> JsNum(2000),
   dailyStepsGoal |-> JsNum(10000),
   desiredSleepHours |-> JsNum(8)]

\* 13/01/2024: no such month.
Date20241301 == <<"1", "3", "/", "0", "1", "/", "2", "0", "2", "4">>

SettingsObjectInputs ==
  {EmptyObject, CleanSettings, [theme |-> JsStr(Light)]}
    \cup {[CleanSettings EXCEPT !.theme = v] : v \in {JsStr(<<"a">>), JsNum(1), JsNull}}
    \cup {[CleanSettings EXCEPT !.dietStartDate = v] :
            v \in {JsStr(BadDate), JsStr(Date20241301), JsNum(1), JsNull}}
    \cup {[CleanSettings EXCEPT ![f] = v] :
            f \in {"startingWeightLbs", "weightLossPerWeekLbs", "weightGoalLbs",
                   "carbLimitPerDay", "calorieLimitPerDay", "dailyStepsGoal"},
            v \in {JsNum(0), JsNum(0 - 1), JsStr(<<"1", "2">>), NaN, JsNull}}
    \cup {[CleanSettings EXCEPT !.desiredSleepHours = v] :
            v \in {JsNum(2), JsNum(3), JsNum(12), JsNum(13), JsStr(<<"8">>), NaN}}

\* An object with the sections given; undefined stands for a missing key.
Sections(settings, meta, trackers) ==
  LET all == [settings |-> settings, meta |-> meta, trackers |-> trackers]
  IN  JsObj([key \in {k \in DOMAIN all : all[k] # Undefined} |-> all[key]])

SettingsSectionInputs ==
  {Undefined, JsNull, JsStr(<<"a">>), JsNum(1), JsArr(<<>>), JsObj(EmptyObject),
   JsObj(CleanSettings), JsObj([CleanSettings EXCEPT !.desiredSleepHours = JsNum(13)])}

MetaSectionInputs ==
  {Undefined, JsNull, JsBool(TRUE), JsArr(<<ItemA>>),
   JsObj([workouts |-> JsArr(<<ItemA, ItemNoId>>), chores |-> JsArr(<<ItemNoId>>)])}

TrackersSectionInputs ==
  {Undefined, JsNull, JsNum(0), JsArr(<<>>),
   JsObj([weight |-> JsArr(<<JsObj([date |-> JsStr(Date20240102), weightLbs |-> JsStr(<<"1", "2">>)]),
                             JsObj([id |-> JsStr(<<"a">>), date |-> JsStr(Date20240103)])>>),
          entertainment |-> JsArr(<<JsObj([date |-> JsStr(Date20240102),
                                           entertainmentIds |-> JsArr(<<JsStr(<<"a">>)>>)])>>)]),
   JsObj([carbs |-> JsArr(<<JsObj([id |-> JsStr(<<"a">>), date |-> JsStr(Date20240103),
                                   carbs |-> JsNum(20)])>>),
          entertainment |-> JsArr(<<JsObj([id |-> JsStr(<<"b">>), date |-> JsStr(Date20240102),
                                           carbs |-> JsNum(30)])>>)])}

NonObjectInputs ==
  {Undefined, JsNull, JsNum(5), NaN, JsStr(<<>>), JsStr(<<"a">>), JsBool(TRUE), JsBool(FALSE)}

RawInputs ==
  NonObjectInputs
    \cup {JsArr(<<>>), JsArr(<<JsObj(CleanSettings)>>)}
    \cup {Sections(s, m, tr) : s \in SettingsSectionInputs, m \in MetaSectionInputs,
                               tr \in TrackersSectionInputs}
    \cup {JsObj([version |-> JsNum(1), updatedAt |-> JsNum(0), settings |-> JsObj(s)]) :
            s \in SettingsObjectInputs}
    \cup {JsObj([meta |-> JsObj([listKey \in {l} |-> list])]) :
            l \in MetaListKeys, list \in MetaListInputs}
    \cup UNION {{JsObj([trackers |-> JsObj([trackerKey \in {k} |-> list])]) :
                   list \in TrackerListInputs(k)} : k \in MainTrackerKeys}
    \cup {JsObj([trackers |->
                   JsObj([water |-> JsArr(<<JsObj([id |-> JsStr(<<"a">>),
                                                   date |-> JsStr(Date20240102),
                                                   liters |-> JsNum(2)])>>)])])}

(***************************************************************************)
(* SpecSanitize: sanitizeData applied to an input, then to its own result  *)
(* (what the main process does when the renderer saves the Document it     *)
(* loaded), while the clock advances.                                      *)
(***************************************************************************)
InitSanitize ==
  /\ input \in RawInputs
  /\ sanitized = <<>>
  /\ madeIds = 0
  /\ data = createDefaultData(0)
  /\ now = 0
  /\ idCounter = 0
  /\ lastCall = [op |-> "none", ret |-> Void, changed |-> FALSE]
  /\ InitDateVars
  /\ InitSaveVars
  /\ InitFileVars

sanitizePass ==
  /\ Len(sanitized) < MaxPasses
  /\ \E r \in {sanitizeData(IF sanitized = <<>> THEN input ELSE sanitized[Len(sanitized)],
                            now, madeIds)} :
       /\ sanitized' = Append(sanitized, r.value)
       /\ madeIds' = r.n
  /\ UNCHANGED <<data, now, idCounter, lastCall, input, dateVars, saveVars, fileVars>>

NextSanitize ==
  \/ Tick
  \/ sanitizePass

SpecSanitize == InitSanitize /\ [][NextSanitize]_vars

(***************************************************************************)
(* Properties of sanitizeData, checked under SpecSanitize for the input of *)
(* every reachable state.                                                  *)
(***************************************************************************)
\* The shape every Document of the main process has.
IsOptionalNumber(v, min, max) ==
  v = JsNull \/ (isFinite(v) /\ v.n >= min /\ v.n <= max)

IsSettings(v) ==
  /\ v.t = "object"
  /\ DOMAIN v.o = DOMAIN CleanSettings
  /\ v.o.theme \in {JsStr(Light), JsStr(Dark)}
  /\ v.o.dietStartDate = JsNull
       \/ (v.o.dietStartDate.t = "string" /\ DisplayDateRegexTest(v.o.dietStartDate.s))
  /\ \A f \in {"startingWeightLbs", "weightLossPerWeekLbs", "weightGoalLbs",
               "carbLimitPerDay", "calorieLimitPerDay", "dailyStepsGoal"} :
       v.o[f] = JsNull \/ (isFinite(v.o[f]) /\ v.o[f].n >= 0)
  /\ IsOptionalNumber(v.o.desiredSleepHours, 3, 12)

IsId(v) == v.t = "string" /\ trim(v.s) # <<>>

IsMetaItem(v) ==
  /\ v.t = "object"
  /\ DOMAIN v.o = {"id", "name"}
  /\ IsId(v.o.id)
  /\ v.o.name.t = "string" /\ v.o.name.s # <<>> /\ trim(v.o.name.s) = v.o.name.s

IsEntry(v) ==
  /\ v.t = "object"
  /\ {"id", "date"} \subseteq DOMAIN v.o
  /\ IsId(v.o.id)
  /\ v.o.date.t = "string" /\ DisplayDateRegexTest(v.o.date.s)

IsDocument(v) ==
  /\ v.t = "object"
  /\ DOMAIN v.o = {"version", "settings", "meta", "trackers", "updatedAt"}
  /\ v.o.version = JsNum(2)
  /\ IsSettings(v.o.settings)
  /\ v.o.meta.t = "object"
  /\ DOMAIN v.o.meta.o = MetaListKeys
  /\ \A l \in MetaListKeys :
       /\ isArray(v.o.meta.o[l])
       /\ \A i \in 1..Len(v.o.meta.o[l].a) : IsMetaItem(v.o.meta.o[l].a[i])
  /\ v.o.trackers.t = "object"
  /\ DOMAIN v.o.trackers.o = MainTrackerKeys
  /\ \A k \in MainTrackerKeys :
       /\ isArray(v.o.trackers.o[k])
       /\ \A i \in 1..Len(v.o.trackers.o[k].a) : IsEntry(v.o.trackers.o[k].a[i])
  /\ v.o.updatedAt.t = "string"

SectionKeys == {"settings", "meta", "trackers"}

\* The section of the input, or {} when it is missing or not an object.
SectionOrEmpty(v, section) ==
  IF isRecord(Get(v, section)) THEN Get(v, section) ELSE JsObj(EmptyObject)

\* The elements of a raw list that are objects with a date of the form
\* MM/DD/YYYY.
DatedElements(list) ==
  {i \in 1..Len(list) :
     /\ list[i].t = "object"
     /\ "date" \in DOMAIN list[i].o
     /\ list[i].o.date.t = "string"
     /\ DisplayDateRegexTest(list[i].o.date.s)}

\* The ids of the elements of a raw meta list that are objects with a name
\* and an id that are strings and not blank.
NamedIds(list) ==
  {list[i].o.id : i \in {j \in 1..Len(list) :
     /\ list[j].t = "object"
     /\ {"id", "name"} \subseteq DOMAIN list[j].o
     /\ list[j].o.id.t = "string" /\ trim(list[j].o.id.s) # <<>>
     /\ list[j].o.name.t = "string" /\ trim(list[j].o.name.s) # <<>>}}

\* The value an object holds under a key; undefined for any other value.
Field(v, key) ==
  IF v.t = "object" /\ key \in DOMAIN v.o THEN v.o[key] ELSE Undefined

\* The array a section of the input holds under a key; empty otherwise.
ListOf(v, section, key) ==
  IF Field(Field(v, section), key).t = "array"
  THEN Field(Field(v, section), key).a
  ELSE <<>>

IdsOf(list) == [i \in 1..Len(list.a) |-> list.a[i].o.id]

\* C9: sanitizeData returns a Document for every input.  For an input that
\* is not an object (null, undefined, a number, a string, a boolean) it is
\* the default Document.  For an object, a section (settings, meta,
\* trackers) that is missing or not an object comes out as the section of
\* the default Document, which is what {} gives (theme light, every
\* optional setting null, every list empty), and the other sections are
\* still sanitized from the input: they are what their own content gives,
\* the theme "dark" is kept, every list keeps as many entries as the raw
\* list has objects with a valid date, and every named item with an id
\* keeps its place in its meta list.  The call is the one the next pass
\* makes on the input, at every time the clock can read; every pass made
\* has returned a Document.
C9_SanitizeTotal ==
  /\ \A i \in 1..Len(sanitized) : IsDocument(sanitized[i])
  /\ sanitized = <<>> => \E r \in {sanitizeData(input, now, madeIds)} :
    LET out == r.value
        metaOut == sanitizeMeta(SectionOrEmpty(input, "meta"), madeIds)
    IN  /\ IsDocument(out)
        /\ (typeof(input) # "object" \/ input = JsNull) =>
             /\ out = createDefaultDataMain(now)
             /\ r.n = madeIds
        /\ (typeof(input) = "object" /\ input # JsNull) =>
             /\ \A section \in SectionKeys :
                  ~(typeof(Get(input, section)) = "object" /\ Get(input, section) # JsNull) =>
                    /\ out.o[section] = createDefaultDataMain(now).o[section]
                    /\ out.o[section] =
                         sanitizeData(JsObj([key \in {section} |-> JsObj(EmptyObject)]), now, madeIds).value.o[section]
             /\ out.o.settings = sanitizeSettings(SectionOrEmpty(input, "settings"))
             /\ out.o.meta = metaOut.value
             /\ out.o.trackers = sanitizeTrackers(SectionOrEmpty(input, "trackers"), metaOut.n).value
             /\ Field(Field(input, "settings"), "theme") = JsStr(Dark) => out.o.settings.o.theme = JsStr(Dark)
             /\ \A k \in MainTrackerKeys :
                  Len(out.o.trackers.o[k].a) =
                    Cardinality(DatedElements(ListOf(input, "trackers", k)))
             /\ \A l \in MetaListKeys :
                  NamedIds(ListOf(input, "meta", l)) \subseteq
                    {out.o.meta.o[l].a[i].o.id : i \in 1..Len(out.o.meta.o[l].a)}

\* A pass reached on an object whose settings section is null while its
\* meta and trackers hold items and entries, some without id: the settings
\* come out as the defaults, the lists are kept.
C9_Witness ==
  /\ Len(sanitized) >= 1
  /\ typeof(input) = "object" /\ input # JsNull
  /\ Field(input, "settings") = JsNull
  /\ sanitized[1].o.settings = createDefaultDataMain(0).o.settings
  /\ Len(sanitized[1].o.meta.o.workouts.a) = 2
  /\ Len(sanitized[1].o.trackers.o.weight.a) = 2
  /\ madeIds > 0

WithoutUpdatedAt(doc) == [key \in DOMAIN doc.o \ {"updatedAt"} |-> doc.o[key]]

\* C10: for every input x, sanitizeData(sanitizeData(x)) equals
\* sanitizeData(x) in version, settings, meta and trackers (everything but
\* updatedAt), whenever the second pass runs: the second pass makes no
\* identifier, every list has the same ids in the same order, and no entry
\* or item is dropped.  The first pass is the one the next pass makes on
\* the input, the second is made at every later time; the same holds of the
\* passes the state records.
C10_SanitizeIdempotent ==
  /\ sanitized = <<>> => \E first \in {sanitizeData(input, now, madeIds)} :
       \A t \in now..MaxTime :
         \E second \in {sanitizeData(first.value, t, first.n)} :
           /\ WithoutUpdatedAt(second.value) = WithoutUpdatedAt(first.value)
           /\ second.n = first.n
           /\ \A l \in MetaListKeys :
                IdsOf(second.value.o.meta.o[l]) = IdsOf(first.value.o.meta.o[l])
           /\ \A k \in MainTrackerKeys :
                IdsOf(second.value.o.trackers.o[k]) = IdsOf(first.value.o.trackers.o[k])
  /\ \A i \in 2..Len(sanitized) :
       WithoutUpdatedAt(sanitized[i]) = WithoutUpdatedAt(sanitized[1])

\* Two passes, the second at a later time, on an input the first pass made
\* an identifier for, turned a numeric string into a number in and dropped
\* nothing from: the second Document has the identifier of the first.
C10_Witness ==
  /\ Len(sanitized) = 2
  /\ sanitized[1].o.updatedAt # sanitized[2].o.updatedAt
  /\ madeIds > 0
  /\ Len(sanitized[2].o.trackers.o.weight.a) = 2
  /\ \E n \in 0..(madeIds - 1) :
       /\ sanitized[1].o.trackers.o.weight.a[1].o.id = JsStr(makeId(n))
       /\ sanitized[2].o.trackers.o.weight.a[1].o.id = JsStr(makeId(n))
  /\ sanitized[2].o.trackers.o.weight.a[1].o.weightLbs = JsNum(12)
  /\ WithoutUpdatedAt(sanitized[2]) = WithoutUpdatedAt(sanitized[1])
  /\ WithoutUpdatedAt(sanitized[1]) # WithoutUpdatedAt(createDefaultDataMain(0))

\* The names of a sanitized meta list, in list order.
NamesOf(list) == [i \in 1..Len(list.a) |-> list.a[i].o.name]

\* C11: each meta list in the output of sanitizeData satisfies the
\* meta-list invariants of the data model: its ids are pairwise distinct,
\* and its names are non-empty after trimming and pairwise distinct
\* case-insensitively.
C11_MetaListInvariants ==
  \A p \in 1..Len(sanitized) : \A l \in MetaListKeys :
    LET ids == IdsOf(sanitized[p].o.meta.o[l])
        names == NamesOf(sanitized[p].o.meta.o[l])
    IN  /\ \A i, j \in 1..Len(ids) : i # j => ids[i] # ids[j]
        /\ \A i \in 1..Len(names) : trim(names[i].s) # <<>>
        /\ \A i, j \in 1..Len(names) :
             i # j => toLowerCase(names[i].s) # toLowerCase(names[j].s)

\* The i-th smallest member of a set of positions.
Nth(S, i) == CHOOSE x \in S : Cardinality({y \in S : y < x}) = i - 1

\* The bounded numeric fields of the entries: category, field, min, max.
\* The default of each is 0.
RangedFields ==
  {<<"weight", "weightLbs", 0, 3000>>, <<"fasting", "hours", 0, 24>>,
   <<"carbs", "carbs", 0, 500>>, <<"calories", "calories", 0, 50000>>,
   <<"steps", "steps", 0, 200000>>, <<"mood", "moodStart", 0, 10>>,
   <<"mood", "moodEnd", 0, 10>>, <<"homework", "minutes", 0, 1440>>}

\* What the claim says of a raw field value and the sanitized one.
RangedFieldOk(raw, out, min, max) ==
  /\ isFinite(out) /\ out.n >= min /\ out.n <= max
  /\ (isFinite(raw) /\ raw.n >= min /\ raw.n <= max) => out = raw
  /\ (isFinite(raw) /\ (raw.n < min \/ raw.n > max)) => out = JsNum(0)

\* The positions of the raw activities that sanitizeData keeps.
KeptActivities(raw) ==
  {i \in 1..Len(raw) :
     /\ raw[i].t = "object"
     /\ Field(raw[i], "metaId").t = "string"
     /\ trim(Field(raw[i], "metaId").s) # <<>>}

\* C12: for each bounded numeric field of an entry with domain [min,max]
\* and default 0 (weightLbs, hours, carbs, calories, steps, moodStart,
\* moodEnd, minutes), sanitizing an entry whose field is a number below min
\* or above max (min-1 and max+1 among them) gives 0, sanitizing one whose
\* field is a number within [min,max] gives exactly that number, and the
\* sanitized field is always within [min,max].
C12_RangedNumbers ==
  Len(sanitized) >= 1 =>
    /\ \A f \in RangedFields :
         LET raw == ListOf(input, "trackers", f[1])
             out == sanitized[1].o.trackers.o[f[1]].a
         IN  \A i \in 1..Len(out) :
               RangedFieldOk(Field(raw[Nth(DatedElements(raw), i)], f[2]),
                             out[i].o[f[2]], f[3], f[4])
    /\ \A key \in {"workouts", "entertainment"} :
         LET raw == ListOf(input, "trackers", key)
             out == sanitized[1].o.trackers.o[key].a
         IN  \A i \in 1..Len(out) :
               LET rawActs == Field(raw[Nth(DatedElements(raw), i)], "activities")
                   kept == IF rawActs.t = "array" THEN KeptActivities(rawActs.a) ELSE {}
               IN  \A j \in 1..Len(out[i].o.activities.a) :
                     RangedFieldOk(IF kept = {} THEN Undefined
                                   ELSE Field(rawActs.a[Nth(kept, j)], "minutes"),
                                   out[i].o.activities.a[j].o.minutes, 0, 1440)

\* A mood entry with moodStart = max + 1 and moodEnd in range was sanitized.
C12_Witness ==
  /\ Len(sanitized) >= 1
  /\ Len(ListOf(input, "trackers", "mood")) = 1
  /\ Field(ListOf(input, "trackers", "mood")[1], "moodStart") = JsNum(11)
  /\ Field(ListOf(input, "trackers", "mood")[1], "moodEnd") = JsNum(6)
  /\ Len(sanitized[1].o.trackers.o.mood.a) = 1
  /\ sanitized[1].o.trackers.o.mood.a[1].o.moodStart = JsNum(0)
  /\ sanitized[1].o.trackers.o.mood.a[1].o.moodEnd = JsNum(6)

\* The input without the elements of its tracker lists that are not objects
\* with a date of the form MM/DD/YYYY.
WithoutUndated(v) ==
  IF ~(v.t = "object" /\ Field(v, "trackers").t = "object") THEN v
  ELSE JsObj([v.o EXCEPT !.trackers =
         JsObj([key \in DOMAIN v.o.trackers.o |->
                  LET list == v.o.trackers.o[key]
                  IN  IF list.t = "array" /\ key \in MainTrackerKeys
                      THEN JsArr([i \in 1..Cardinality(DatedElements(list.a)) |->
                                    list.a[Nth(DatedElements(list.a), i)]])
                      ELSE list])])

\* C13: for every tracker category, the sanitized list is the sub-sequence
\* of the raw trackers[key] elements that are objects whose date matches
\* MM/DD/YYYY, in their original order (same dates, same ids where the raw
\* element has one); an element that is not an object or has an invalid
\* date removes only itself: the output is the output for the input without
\* those elements, in every entry, category and section.
C13_EntryFiltering ==
  Len(sanitized) >= 1 =>
    /\ \A key \in MainTrackerKeys :
         LET raw == ListOf(input, "trackers", key)
             out == sanitized[1].o.trackers.o[key].a
         IN  /\ Len(out) = Cardinality(DatedElements(raw))
             /\ \A i \in 1..Len(out) :
                  LET element == raw[Nth(DatedElements(raw), i)]
                  IN  /\ out[i].o.date = element.o.date
                      /\ IsId(Field(element, "id")) => out[i].o.id = element.o.id
                      /\ \A f \in DOMAIN out[i].o \ {"id", "date"} :
                           out[i].o[f] = entryFields(key, element)[f]
    /\ WithoutUpdatedAt(sanitized[1])
         = WithoutUpdatedAt(sanitizeData(WithoutUndated(input), 0, 0).value)

\* A weight list of two elements, one of them without a valid date, was
\* sanitized to the other one, beside a meta list that was kept.
C13_Witness ==
  /\ Len(sanitized) >= 1
  /\ Len(ListOf(input, "trackers", "weight")) = 2
  /\ Cardinality(DatedElements(ListOf(input, "trackers", "weight"))) = 1
  /\ Len(sanitized[1].o.trackers.o.weight.a) = 1
  /\ sanitized[1].o.trackers.o.weight.a[1].o.weightLbs = JsNum(180)
  /\ WithoutUndated(input) # input

(***************************************************************************)
(* SpecDate: a date typed into a form goes through displayDateToIso and    *)
(* the result through isoToDisplayDate (src/src/lib/date.ts).              *)
(***************************************************************************)
DigitChars == {Digits[i] : i \in 1..10}

YearInputs == {<<"2", "0", "2", "4">>, <<"0", "0", "0", "0">>}

\* Texts of the form dd/dd/dddd with every month from 00 to 19 and every day
\* from 00 to 39, and texts of other forms.
DateTextInputs ==
  {<<m1, m2, "/", d1, d2, "/">> \o year :
     m1 \in {"0", "1"}, m2 \in DigitChars, d1 \in {"0", "1", "2", "3"}, d2 \in DigitChars,
     year \in YearInputs}
    \cup {<<>>,
          <<"1", "/", "2", "/", "2", "0", "2", "4">>,
          <<"0", "1", "-", "0", "2", "-", "2", "0", "2", "4">>,
          <<"2", "0", "2", "4", "-", "0", "1", "-", "0", "2">>,
          <<"0", "1", "/", "0", "2", "/", "2", "4">>,
          <<"0", "1", "/", "0", "2", "/", "2", "0", "2", "4", "5">>,
          <<" ", "0", "1", "/", "0", "2", "/", "2", "0", "2", "4">>,
          <<"0", "1", "/", "0", "2", "/", "2", "0", "2", "4", " ">>,
          <<"0", "a", "/", "0", "2", "/", "2", "0", "2", "4">>,
          <<"0", "1", "/", "0", "2", "/", "2", "a", "2", "4">>,
          <<"0", "1", "/", "0", "2", "/", "/", "2", "0", "2">>,
          <<"/", "0", "1", "/", "0", "2", "/", "2", "0", "2">>,
          <<"0", "1", "/", "0", "2", "-", "2", "0", "2", "4">>}

InitDate ==
  /\ dateText \in DateTextInputs
  /\ isoText = <<>>
  /\ displayText = <<>>
  /\ data = createDefaultData(0)
  /\ now = 0
  /\ idCounter = 0
  /\ lastCall = [op |-> "none", ret |-> Void, changed |-> FALSE]
  /\ input = Undefined
  /\ sanitized = <<>>
  /\ madeIds = 0
  /\ InitSaveVars
  /\ InitFileVars

\* displayDateToIso(dateText); the result is kept in a list of one element.
toIso ==
  /\ isoText = <<>>
  /\ isoText' = <<displayDateToIso(dateText)>>
  /\ UNCHANGED <<rendererVars, now, mainVars, saveVars, fileVars, dateText, displayText>>

\* isoToDisplayDate of the result of displayDateToIso.
toDisplay ==
  /\ isoText # <<>>
  /\ displayText = <<>>
  /\ displayText' = <<isoToDisplayDate(isoText[1])>>
  /\ UNCHANGED <<rendererVars, now, mainVars, saveVars, fileVars, dateText, isoText>>

NextDate ==
  \/ toIso
  \/ toDisplay

SpecDate == InitDate /\ [][NextDate]_vars

\* C14: for every string d that isDisplayDate accepts (MM/DD/YYYY, month
\* 01-12, day 01-31), isoToDisplayDate(displayDateToIso(d)) equals d; for
\* every string that isDisplayDate rejects, displayDateToIso returns the
\* empty string.
C14_DateRoundTrip ==
  /\ (displayText # <<>> /\ isDisplayDate(dateText)) => displayText[1] = dateText
  /\ (isoText # <<>> /\ ~isDisplayDate(dateText)) => isoText[1] = <<>>

\* 12/31/2024 went through both conversions, by way of 2024-12-31.
C14_Witness ==
  /\ dateText = <<"1", "2", "/", "3", "1", "/", "2", "0", "2", "4">>
  /\ isoText = <<(<<"2", "0", "2", "4", "-", "1", "2", "-", "3", "1">>)>>
  /\ displayText = <<dateText>>

\* 13/01/2024 was refused by displayDateToIso.
C14_WitnessRejected ==
  /\ dateText = <<"1", "3", "/", "0", "1", "/", "2", "0", "2", "4">>
  /\ isoText = <<(<<>>)>>

(***************************************************************************)
(* SpecSave: the load effect and the save effect of AppDataProvider        *)
(* (src/src/context/AppDataContext.tsx, lines 153-198).  now is the clock  *)
(* in milliseconds.  A timer runs its callback when it is due, before      *)
(* anything else happens.                                                  *)
(***************************************************************************)
\* The delay of window.setTimeout in the save effect.
SaveDelay == 250

LoadError == <<"Could not load the local JSON file.">>

SaveError == <<"Could not save changes to the local JSON file.">>

\* The save effect that does not clear the timer of the effect before it.
saveEffect_NoCleanup(d, l, t, handle, pending) ==
  IF l THEN [timer |-> <<>>, timers |-> pending]
  ELSE [timer |-> <<[due |-> t + SaveDelay, data |-> d]>>,
        timers |-> pending \cup {[due |-> t + SaveDelay, data |-> d]}]

\* The save effect run at time t with the Document d and the flag l, after
\* the cleanup of the effect before it, whose timer is handle, when
\* setTimeout holds the timers pending.  clearTimeout of a timer that has
\* run does nothing.
saveEffect(d, l, t, handle, pending) ==
  LET cleared == pending \ (IF handle = <<>> THEN {} ELSE {handle[1]})
  IN  IF l THEN [timer |-> <<>>, timers |-> cleared]
      ELSE [timer |-> <<[due |-> t + SaveDelay, data |-> d]>>,
            timers |-> cleared \cup {[due |-> t + SaveDelay, data |-> d]}]

TimerDue == \E t \in timers : t.due <= now

\* React renders with the state (d, l) and runs the save effect, whose
\* dependencies [data, loading] changed.
render(d, l, kind) ==
  /\ ~TimerDue
  /\ Len(changes) < MaxChanges
  /\ data' = d
  /\ loading' = l
  /\ \E e \in {saveEffect(d, l, now, timer, timers)} :
       /\ timer' = e.timer
       /\ timers' = e.timers
  /\ changes' = Append(changes, [at |-> now, data |-> d, loading |-> l, kind |-> kind])

\* The time passes; a timer that is due runs first.
advance ==
  \E dt \in {50, 250} :
    /\ now + dt <= MaxClock
    /\ \A t \in timers : now + dt <= t.due
    /\ now' = now + dt
    /\ UNCHANGED <<rendererVars, mainVars, dateVars, fileVars, saveVars>>

\* loadData resolved: setData(loaded); setLoading(false).
loadResolves ==
  /\ loading
  /\ \E loaded \in {stamp(createDefaultData(0), now),
                    stamp([createDefaultData(0) EXCEPT !.settings.theme = "dark"], now)} :
       render(loaded, FALSE, "loaded")
  /\ UNCHANGED <<now, idCounter, lastCall, mainVars, dateVars, fileVars, error, saves>>

\* loadData rejected: setError(...); setLoading(false).
loadRejects ==
  /\ loading
  /\ render(data, FALSE, "loadFailed")
  /\ error' = LoadError
  /\ UNCHANGED <<now, idCounter, lastCall, mainVars, dateVars, fileVars, saves>>

\* A callback that gave setData a new Document: the theme switch of the
\* navigation bar, which is there while loading too.
switchTheme ==
  \E theme \in {"light", "dark"} :
    \E r \in {updateSettingsCall(data, [theme |-> theme], now)} :
      /\ render(r.data, loading, "mutation")
      /\ lastCall' = Called("updateSettings", r)
      /\ UNCHANGED <<now, idCounter, mainVars, dateVars, fileVars, error, saves>>

\* addTrackerEntry from a page (the pages are not shown while loading); with
\* a date that is not valid setData gets the previous Document and nothing
\* is rendered.
addWeight ==
  /\ ~loading
  /\ \E date \in {Date20240102, BadDate} :
       \E r \in {addTrackerEntryCall(data, "weight", [date |-> date, weightLbs |-> 180],
                                     nextId(idCounter), now)} :
         /\ lastCall' = Called("addTrackerEntry", r)
         /\ IF isDisplayDate(date)
            THEN /\ idCounter < MaxIds
                 /\ idCounter' = idCounter + 1
                 /\ render(r.data, loading, "mutation")
            ELSE /\ ~TimerDue
                 /\ UNCHANGED <<data, idCounter, loading, timer, timers, changes>>
  /\ UNCHANGED <<now, mainVars, dateVars, fileVars, error, saves>>

\* The timer runs: saveData(data) with the Document of the effect that set
\* it.
timerFires ==
  \E t \in timers :
    /\ t.due <= now
    /\ timers' = timers \ {t}
    /\ saves' = Append(saves, [at |-> now, data |-> t.data, state |-> "pending"])
    /\ UNCHANGED <<rendererVars, now, mainVars, dateVars, fileVars, loading, error, timer, changes>>

saveResolves ==
  \E i \in 1..Len(saves) :
    /\ saves[i].state = "pending"
    /\ saves' = [saves EXCEPT ![i].state = "resolved"]
    /\ UNCHANGED <<rendererVars, now, mainVars, dateVars, fileVars, loading, error, timer, timers, changes>>

\* A catch that puts the Document of the failed save back.
saveRejects_RollsBack ==
  \E i \in 1..Len(saves) :
    /\ saves[i].state = "pending"
    /\ saves' = [saves EXCEPT ![i].state = "rejected"]
    /\ error' = SaveError
    /\ data' = saves[i].data
    /\ UNCHANGED <<idCounter, lastCall, now, mainVars, dateVars, fileVars, loading, timer, timers, changes>>

\* saveData rejected: the catch sets the error.
saveRejects ==
  \E i \in 1..Len(saves) :
    /\ saves[i].state = "pending"
    /\ saves' = [saves EXCEPT ![i].state = "rejected"]
    /\ error' = SaveError
    /\ UNCHANGED <<rendererVars, now, mainVars, dateVars, fileVars, loading, timer, timers, changes>>

clearError ==
  /\ error # Null
  /\ error' = Null
  /\ UNCHANGED <<rendererVars, now, mainVars, dateVars, fileVars, loading, timer, timers, saves, changes>>

InitSave ==
  /\ data = createDefaultData(0)
  /\ now = 0
  /\ idCounter = 0
  /\ lastCall = [op |-> "none", ret |-> Void, changed |-> FALSE]
  /\ input = Undefined
  /\ sanitized = <<>>
  /\ madeIds = 0
  /\ InitDateVars
  /\ loading = TRUE
  /\ error = Null
  /\ timer = <<>>
  /\ timers = {}
  /\ saves = <<>>
  /\ changes = <<>>
  /\ InitFileVars

NextSave ==
  \/ advance
  \/ loadResolves
  \/ loadRejects
  \/ switchTheme
  \/ addWeight
  \/ timerFires
  \/ saveResolves
  \/ saveRejects
  \/ clearError

SpecSave == InitSave /\ [][NextSave]_vars

\* The runs of the save effect with loading false: the end of the load and
\* every change of the Document after it.
RunsAfterLoading == SelectSeq(changes, LAMBDA c : ~c.loading)

\* The changes of the Document: the loaded Document and every mutation.
DocumentChanges == SelectSeq(changes, LAMBDA c : c.kind \in {"loaded", "mutation"})

\* Trailing-edge debouncing of the saves with respect to a list of events:
\* at most one timer is pending; after the last event the timer of that
\* event, and no other, is pending until it is due; an event followed by
\* another less than SaveDelay later issues no save; the last event of a
\* burst issues exactly one save, SaveDelay after it, carrying the Document
\* of that event.
Debounced(events) ==
  LET n == Len(events)
      timerOf(k) == [due |-> events[k].at + SaveDelay, data |-> events[k].data]
      lastOfBurst(k) == k = n \/ events[k + 1].at >= events[k].at + SaveDelay
      savesOf(k) == {i \in 1..Len(saves) :
                       saves[i].at = timerOf(k).due /\ saves[i].data = events[k].data}
  IN  /\ Cardinality(timers) <= 1
      /\ n > 0 =>
           /\ timers \subseteq {timerOf(n)}
           /\ now < timerOf(n).due => timers = {timerOf(n)}
      /\ \A k \in 1..n :
           IF lastOfBurst(k)
           THEN Cardinality(savesOf(k)) = IF timerOf(k) \in timers \/ now < timerOf(k).due THEN 0 ELSE 1
           ELSE \A i \in 1..Len(saves) :
                  ~(saves[i].at > events[k].at /\ saves[i].at < events[k + 1].at + SaveDelay)

\* C15 as stated: saves are debounced on the trailing edge: at most one save
\* timer is pending at any time, every change of the Document cancels the
\* pending timer and starts a new 250 ms timer, so a burst of mutations each
\* arriving less than 250 ms after the previous one issues exactly one save,
\* and that save carries the Document as of the last mutation of the burst.
C15_Debounced == Debounced(DocumentChanges)

\* C15, amended: once the initial load has settled, saves are debounced on
\* the trailing edge: at most one save timer is pending at any time and none
\* while loading; the end of the load and every later change of the
\* Document cancel the pending timer and start a new 250 ms timer, so a
\* burst of mutations after the load, each less than 250 ms after the
\* previous one, issues exactly one save, carrying the Document as of the
\* last mutation of the burst; and every save is the save of such a burst.
C15_DebouncedAfterLoading ==
  /\ Debounced(RunsAfterLoading)
  /\ loading => timers = {} /\ saves = <<>>
  /\ \A i \in 1..Len(saves) :
       \E k \in 1..Len(RunsAfterLoading) :
         /\ saves[i].at = RunsAfterLoading[k].at + SaveDelay
         /\ saves[i].data = RunsAfterLoading[k].data
         /\ k < Len(RunsAfterLoading) => RunsAfterLoading[k + 1].at >= saves[i].at

\* After the load, two mutations less than 250 ms apart issued one save,
\* 250 ms after the second and with its Document.
C15_Witness ==
  /\ ~loading
  /\ Len(changes) = 3
  /\ changes[1].kind = "loaded"
  /\ changes[2].kind = "mutation" /\ changes[3].kind = "mutation"
  /\ changes[2].at > changes[1].at
  /\ changes[3].at - changes[2].at \in 1..(SaveDelay - 1)
  /\ changes[3].data # changes[2].data
  /\ Len(saves) = 1
  /\ saves[1].at = changes[3].at + SaveDelay
  /\ saves[1].data = changes[3].data
  /\ saves[1].data = data

\* A save was rejected.
Rejected(list) == \E i \in 1..Len(list) : list[i].state = "rejected"

\* The Documents the callbacks of SpecSave can give setData.
MutationResults ==
  {updateSettingsCall(data, [theme |-> theme], now).data : theme \in {"light", "dark"}}
    \cup {addTrackerEntryCall(data, "weight", [date |-> Date20240102, weightLbs |-> 180],
                              nextId(idCounter), now).data}

\* C16: when a save rejects, the in-memory Document is left exactly as it
\* was (no rollback to the last written state) and the user-visible error
\* is set; later mutations still apply to the Document and schedule further
\* saves.
C16_SaveFailureKeepsDocument ==
  [][/\ (\E i \in 1..Len(saves) : saves[i].state = "pending" /\ saves'[i].state = "rejected") =>
          /\ data' = data
          /\ error' = SaveError
          /\ timers' = timers /\ changes' = changes /\ loading' = loading
     /\ (Rejected(saves) /\ lastCall' # lastCall /\ changes' # changes) =>
          /\ data' \in MutationResults
          /\ timers' = {[due |-> now + SaveDelay, data |-> data']}
     /\ (Rejected(saves) /\ Len(saves') > Len(saves)) =>
          /\ saves'[Len(saves')].data = data
          /\ saves'[Len(saves')].state = "pending"]_vars

\* The save of the loaded Document was rejected; a mutation made after the
\* save was issued is still there, and it was saved after the failure.
C16_Witness ==
  /\ Len(saves) = 2
  /\ saves[1].state = "rejected"
  /\ error = SaveError
  /\ saves[1].data # data
  /\ saves[2].data = data
  /\ saves[2].at > saves[1].at
  /\ changes[Len(changes)].kind = "mutation"

(***************************************************************************)
(* SpecFile: the data file, the load and import handlers of the main       *)
(* process (src/electron/main.ts, lines 626-704) and the callbacks of the  *)
(* renderer that call them.  A call runs from the request to the           *)
(* renderer's continuation with no other call in between.                  *)
(*                                                                         *)
(* The text of a file is the value it parses to (json) or, for a text that *)
(* is not valid JSON, the value whose text it is a cut of.                 *)
(***************************************************************************)
RECURSIVE jsonValue(_)
\* What JSON.stringify keeps of a value: no undefined member of an object,
\* null for undefined in an array and for NaN.
jsonValue(v) ==
  CASE v.t = "array" ->
         JsArr([i \in 1..Len(v.a) |->
                  IF v.a[i] = Undefined THEN JsNull ELSE jsonValue(v.a[i])])
    [] v.t = "object" ->
         JsObj([key \in {k \in DOMAIN v.o : v.o[k] # Undefined} |-> jsonValue(v.o[key])])
    [] v = NaN -> JsNull
    [] OTHER -> v

\* JSON.stringify(value, null, 2)
JSONstringify(value) == [json |-> TRUE, value |-> jsonValue(value)]

\* The text cut short: never valid JSON when the text is that of an object.
Truncated(text) == [json |-> FALSE, value |-> text.value]

\* JSON.parse(raw): the value, or a SyntaxError.
JSONparse(raw) ==
  IF raw.json THEN [ok |-> TRUE, value |-> raw.value] ELSE [ok |-> FALSE]

\* The ways fs.writeFile can end: the text is written, or it throws with
\* the file as it was or cut short.
WriteOutcomes == {"written", "untouched", "truncated"}

\* The file after fs.writeFile(filePath, text) ended with the outcome.
fsWriteFile(old, text, outcome) ==
  CASE outcome = "written" -> text
    [] outcome = "untouched" -> old
    [] outcome = "truncated" -> Truncated(text)

\* A readDataFile whose catch lets the SyntaxError through.
readDataFile_Rethrows(raw, readOk, outcome, t, n) ==
  IF ~readOk THEN [rejected |-> TRUE, file |-> raw, n |-> n]
  ELSE IF JSONparse(raw).ok
       THEN [rejected |-> FALSE, value |-> sanitizeData(JSONparse(raw).value, t, n).value,
             file |-> raw, n |-> sanitizeData(JSONparse(raw).value, t, n).n]
       ELSE [rejected |-> TRUE, file |-> raw, n |-> n]

\* readDataFile() when the data file holds raw, fs.readFile succeeds or not
\* and the fs.writeFile of the catch ends with the outcome: whether the
\* promise rejects, the value it resolves to, the file and the identifiers
\* made.
readDataFile(raw, readOk, outcome, t, n) ==
  IF ~readOk THEN [rejected |-> TRUE, file |-> raw, n |-> n]
  ELSE IF JSONparse(raw).ok
       THEN [rejected |-> FALSE, value |-> sanitizeData(JSONparse(raw).value, t, n).value,
             file |-> raw, n |-> sanitizeData(JSONparse(raw).value, t, n).n]
       ELSE IF outcome = "written"
            THEN [rejected |-> FALSE, value |-> createDefaultDataMain(t),
                  file |-> JSONstringify(createDefaultDataMain(t)), n |-> n]
            ELSE [rejected |-> TRUE,
                  file |-> fsWriteFile(raw, JSONstringify(createDefaultDataMain(t)), outcome),
                  n |-> n]

\* writeDataFile(value) when the data file holds old.
writeDataFile(old, value, outcome, t, n) ==
  LET sanitizedValue == sanitizeData(value, t, n)
  IN  IF outcome = "written"
      THEN [rejected |-> FALSE, value |-> sanitizedValue.value,
            file |-> JSONstringify(sanitizedValue.value), n |-> sanitizedValue.n]
      ELSE [rejected |-> TRUE,
            file |-> fsWriteFile(old, JSONstringify(sanitizedValue.value), outcome),
            n |-> sanitizedValue.n]

\* An import handler that returns the sanitized value without writing it.
importData_NoWrite(old, choice, readOk, outcome, t, n) ==
  IF choice = <<>> THEN [rejected |-> FALSE, value |-> JsNull, file |-> old, n |-> n]
  ELSE IF ~readOk \/ ~JSONparse(choice[1]).ok
       THEN [rejected |-> TRUE, file |-> old, n |-> n]
       ELSE [rejected |-> FALSE,
             value |-> sanitizeData(JSONparse(choice[1]).value, t, n).value,
             file |-> old,
             n |-> sanitizeData(JSONparse(choice[1]).value, t, n).n]

\* The handler of "app-data:import" when the dialog was cancelled (choice
\* is empty) or gave a file with the text choice[1]; every error of the try
\* block is thrown on as one Error.
importData(old, choice, readOk, outcome, t, n) ==
  IF choice = <<>> THEN [rejected |-> FALSE, value |-> JsNull, file |-> old, n |-> n]
  ELSE IF ~readOk \/ ~JSONparse(choice[1]).ok
       THEN [rejected |-> TRUE, file |-> old, n |-> n]
       ELSE writeDataFile(old, JSONparse(choice[1]).value, outcome, t, n)

ImportError == <<"Import failed. Make sure the selected file is valid JSON.">>

\* What a JSON file can hold: Documents as the application saved them,
\* hand-edited Documents whose items and entries lack ids, an object without
\* sections, and values that are not objects.
FileValues ==
  {createDefaultDataMain(0),
   sanitizeData(Sections(JsObj(CleanSettings), JsObj([workouts |-> JsArr(<<ItemA>>)]),
                         JsObj([weight |-> JsArr(<<JsObj([id |-> JsStr(<<"a">>),
                                                          date |-> JsStr(Date20240102),
                                                          weightLbs |-> JsNum(180)])>>)])),
                0, 0).value,
   Sections(Undefined, JsObj([chores |-> JsArr(<<ItemNoId>>)]), JsNull),
   Sections(JsNull, Undefined,
            JsObj([weight |-> JsArr(<<JsObj([date |-> JsStr(Date20240103),
                                             weightLbs |-> JsStr(<<"1", "2">>)]),
                                      JsNull>>)])),
   JsObj(EmptyObject), JsArr(<<>>), JsNull}

\* The texts of those values, the same cut short, and the empty file.
FileTexts ==
  {JSONstringify(v) : v \in FileValues}
    \cup {Truncated(JSONstringify(v)) : v \in {createDefaultDataMain(0), JsObj(EmptyObject)}}
    \cup {[json |-> FALSE, value |-> JsStr(<<>>)]}

\* The load effect: loadData() runs readDataFile in the main process; then
\* setData(loaded), or setError in the catch, and setLoading(false).
\* The number of calls of the main process made so far.
callsMade == IF ipc.op = "none" THEN 0 ELSE ipc.calls

loadFromFile ==
  /\ loading
  /\ callsMade < MaxCalls
  /\ \E readOk \in BOOLEAN, outcome \in WriteOutcomes :
       \E r \in {readDataFile(file, readOk, outcome, now, madeIds)} :
         /\ (readOk /\ ~JSONparse(file).ok) \/ outcome = "written"
         /\ r.n <= MaxMade
         /\ file' = r.file
         /\ madeIds' = r.n
         /\ data' = IF r.rejected THEN data ELSE r.value
         /\ error' = IF r.rejected THEN LoadError ELSE error
         /\ loading' = FALSE
         /\ ipc' = [op |-> "load", calls |-> callsMade + 1, at |-> now,
                    madeBefore |-> madeIds, fileBefore |-> file, dataBefore |-> data,
                    errorBefore |-> error, choice |-> <<>>, readOk |-> readOk,
                    outcome |-> outcome, rejected |-> r.rejected]
  /\ UNCHANGED <<now, idCounter, lastCall, input, sanitized, dateVars,
                 timer, timers, saves, changes>>

\* importFromJson: importData() runs the import handler in the main process
\* (the dialog, then readFile, JSON.parse and writeDataFile); then
\* setData(imported) and true, or false when nothing was imported, or
\* setError and false in the catch.
importFromJson ==
  /\ ~loading
  /\ callsMade < MaxCalls
  /\ \E choice \in {<<>>} \cup {<<text>> : text \in FileTexts},
        readOk \in BOOLEAN, outcome \in WriteOutcomes :
       \E r \in {importData(file, choice, readOk, outcome, now, madeIds)} :
         /\ choice = <<>> => readOk
         /\ (choice # <<>> /\ readOk /\ JSONparse(choice[1]).ok) \/ outcome = "written"
         /\ r.n <= MaxMade
         /\ file' = r.file
         /\ madeIds' = r.n
         /\ data' = IF r.rejected \/ r.value = JsNull THEN data ELSE r.value
         /\ error' = IF r.rejected THEN ImportError ELSE error
         /\ lastCall' = [op |-> "importFromJson",
                         ret |-> Bool(~r.rejected /\ r.value # JsNull),
                         changed |-> data' # data]
         /\ ipc' = [op |-> "import", calls |-> callsMade + 1, at |-> now,
                    madeBefore |-> madeIds, fileBefore |-> file, dataBefore |-> data,
                    errorBefore |-> error, choice |-> choice, readOk |-> readOk,
                    outcome |-> outcome, rejected |-> r.rejected]
  /\ UNCHANGED <<now, idCounter, input, sanitized, dateVars,
                 loading, timer, timers, saves, changes>>

InitFile ==
  /\ file \in FileTexts
  /\ ipc = NoCall
  /\ data = createDefaultDataMain(0)
  /\ now = 0
  /\ idCounter = 0
  /\ lastCall = [op |-> "none", ret |-> Void, changed |-> FALSE]
  /\ input = Undefined
  /\ sanitized = <<>>
  /\ madeIds = 0
  /\ InitDateVars
  /\ loading = TRUE
  /\ error = Null
  /\ timer = <<>>
  /\ timers = {}
  /\ saves = <<>>
  /\ changes = <<>>

NextFile ==
  \/ Tick
  \/ loadFromFile
  \/ importFromJson
  \/ clearError

SpecFile == InitFile /\ [][NextFile]_vars

\* The sanitized content of the selected file when importFromJson runs.
SelectedContent(choice) ==
  sanitizeData(JSONparse(choice[1]).value, now, madeIds).value

\* A step is a call of importFromJson with the choice made in the dialog.
ImportStep(choice) ==
  /\ ipc' # ipc
  /\ ipc'.op = "import"
  /\ ipc'.choice = choice
  /\ lastCall'.op = "importFromJson"

\* C17: after importFromJson the Document is the sanitized content of the
\* selected file and the data file holds the text of that content when the
\* import succeeded (it returned true), and the Document is the one before
\* when it did not; when the selected file cannot be read or parsed the
\* Document and the data file are unchanged and the error is set; when the
\* user cancels the dialog the Document, the data file and the error are
\* unchanged.
C17_ImportAllOrNothing ==
  [][\A choice \in {<<>>} \cup {<<text>> : text \in FileTexts} :
       ImportStep(choice) =>
         IF choice = <<>>
         THEN /\ lastCall'.ret = Bool(FALSE)
              /\ UNCHANGED <<data, file, error>>
         ELSE IF ~ipc'.readOk \/ ~JSONparse(choice[1]).ok
         THEN /\ lastCall'.ret = Bool(FALSE)
              /\ UNCHANGED <<data, file>>
              /\ error' = ImportError
         ELSE IF lastCall'.ret = Bool(TRUE)
         THEN /\ data' = SelectedContent(choice)
              /\ file' = JSONstringify(SelectedContent(choice))
              /\ UNCHANGED error
         ELSE /\ lastCall'.ret = Bool(FALSE)
              /\ ipc'.outcome # "written"
              /\ UNCHANGED data
              /\ error' = ImportError]_vars

\* An import of a hand-edited file succeeded: the Document and the data file
\* changed to the sanitized content, which is not the content selected.
C17_Witness ==
  /\ ipc.op = "import"
  /\ lastCall.op = "importFromJson"
  /\ lastCall.ret = Bool(TRUE)
  /\ ipc.choice # <<>>
  /\ data # ipc.dataBefore
  /\ file # ipc.fileBefore
  /\ data # JSONparse(ipc.choice[1]).value
  /\ file = JSONstringify(data)

\* The last call was a load of a data file that could be read and whose
\* content is not valid JSON.
LoadedInvalidJson == ipc.op = "load" /\ ipc.readOk /\ ~ipc.fileBefore.json

\* The load resolved with the default Document and the data file holds it.
FellBackToDefault ==
  /\ ~ipc.rejected
  /\ error = Null
  /\ ~loading
  /\ data = createDefaultDataMain(ipc.at)
  /\ file = JSONstringify(createDefaultDataMain(ipc.at))

localeCompareLess(left, right) == StrLess(left, right)

\* The item put into a list sorted by name, after the items that do not
\* come after it: Array.prototype.sort is stable.
RECURSIVE insertByName(_, _)
insertByName(sortedItems, item) ==
  IF sortedItems = <<>> THEN <<item>>
  ELSE IF localeCompareLess(item.name, Head(sortedItems).name)
       THEN <<item>> \o sortedItems
       ELSE <<Head(sortedItems)>> \o insertByName(Tail(sortedItems), item)

\* [...substances].sort((left, right) => left.name.localeCompare(right.name))
RECURSIVE sortedByName(_)
sortedByName(items) ==
  IF items = <<>> THEN <<>>
  ELSE insertByName(sortedByName(SubSeq(items, 1, Len(items) - 1)), items[Len(items)])

\* A dateUsageMap with one Set for each entry.
RECURSIVE dateUsageMap_PerEntry(_, _, _)
dateUsageMap_PerEntry(entries, known, map) ==
  IF entries = <<>> THEN map
  ELSE dateUsageMap_PerEntry(
         Tail(entries), known,
         (<<Head(entries).date, Len(entries)>> :>
            {id \in known : includes(Head(entries).substanceIds, id)}) @@ map)

\* dateUsageMap after the loop over the entries left, map being the Map so
\* far and known the keys of countById: the Set of the date of each entry
\* gets the known ids of the entry.
RECURSIVE dateUsageMap(_, _, _)
dateUsageMap(entries, known, map) ==
  IF entries = <<>> THEN map
  ELSE dateUsageMap(
         Tail(entries), known,
         (Head(entries).date :>
            ((IF Head(entries).date \in DOMAIN map THEN map[Head(entries).date] ELSE {})
               \cup {id \in known : includes(Head(entries).substanceIds, id)})) @@ map)

\* countById after the loop over dateUsageMap.values(): one more for each
\* Set that holds the id.
countById(known, map) ==
  [id \in known |-> Cardinality({key \in DOMAIN map : id \in map[key]})]

\* The points of the histogram with the Map of the dates.
pointsOf(sortedSubstances, counts) ==
  [i \in 1..Len(sortedSubstances) |->
     [id |-> sortedSubstances[i].id,
      name |-> sortedSubstances[i].name,
      count |-> counts[sortedSubstances[i].id]]]

\* The ids of the items: the keys of countById.
idsOf(items) == {items[i].id : i \in 1..Len(items)}

\* points of SubstancesHistogram({ entries, substances })
points(entries, substances) ==
  IF substances = <<>> THEN <<>>
  ELSE pointsOf(sortedByName(substances),
                countById(idsOf(substances),
                          dateUsageMap(entries, idsOf(substances), <<>>)))

\* The histogram is followed for at most MaxEntries substance entries.
MaxEntries == 2

\* The meta lists of substances: empty, one item, two items in and out of
\* the order of their names.
SubstanceListInputs ==
  {<<>>,
   <<[id |-> <<"a">>, name |-> <<"a">>]>>,
   <<[id |-> <<"a">>, name |-> <<"a">>], [id |-> <<"b">>, name |-> <<"b">>]>>,
   <<[id |-> <<"a">>, name |-> <<"b">>], [id |-> <<"b">>, name |-> <<"a">>]>>}

\* Substance entries: no id, one, the same twice, two, one of no item.
SubstanceEntryInputs ==
  {[date |-> date, substanceIds |-> ids, notes |-> ""] :
     date \in {Date20240102, Date20240103},
     ids \in {<<>>, <<<<"a">>>>, <<<<"a">>, <<"a">>>>, <<<<"a">>, <<"b">>>>, <<<<"A">>>>}}

SubstanceEntryLists ==
  {[i \in 1..Len(list) |-> WithId(list[i], nextId(i - 1))] :
     list \in SeqsUpTo(SubstanceEntryInputs, MaxEntries)}

InitHistogram ==
  /\ \E substances \in SubstanceListInputs, entries \in SubstanceEntryLists :
       data = [createDefaultData(0) EXCEPT !.meta.substances = substances,
                                           !.trackers.substances = entries]
  /\ now = 0
  /\ idCounter = MaxEntries
  /\ lastCall = [op |-> "none", ret |-> Void, changed |-> FALSE]
  /\ input = Undefined
  /\ sanitized = <<>>
  /\ madeIds = 0
  /\ InitDateVars
  /\ InitSaveVars
  /\ InitFileVars

\* A render of <SubstancesHistogram entries={...substances} substances={data.meta.substances} />
SubstancesHistogram ==
  /\ lastCall' = [op |-> "SubstancesHistogram",
                  ret |-> points(data.trackers.substances, data.meta.substances),
                  changed |-> FALSE]
  /\ UNCHANGED <<data, now, idCounter>>
  /\ UNCHANGED nonRendererVars

NextHistogram == SubstancesHistogram

SpecHistogram == InitHistogram /\ [][NextHistogram]_vars

\* The dates of the entries that reference the substance.
DatesUsing(entries, id) ==
  {entries[k].date : k \in {k \in 1..Len(entries) : includes(entries[k].substanceIds, id)}}

\* C19: the histogram has one point for each substance of the meta list, and
\* its count is the number of distinct dates on which at least one entry
\* references the substance, however many entries of that date reference it
\* and however often one entry repeats the id.
C19_CountsDistinctDates ==
  lastCall.op = "SubstancesHistogram" =>
    /\ Len(lastCall.ret) = Len(data.meta.substances)
    /\ \A i \in 1..Len(data.meta.substances) :
         \E j \in 1..Len(lastCall.ret) :
           /\ lastCall.ret[j].id = data.meta.substances[i].id
           /\ lastCall.ret[j].name = data.meta.substances[i].name
           /\ lastCall.ret[j].count =
                Cardinality(DatesUsing(data.trackers.substances, data.meta.substances[i].id))

\* Two entries of one date reference the same substance, one of them twice,
\* and its count is 1.
C19_Witness ==
  /\ lastCall.op = "SubstancesHistogram"
  /\ Len(data.trackers.substances) = 2
  /\ data.trackers.substances[1].date = data.trackers.substances[2].date
  /\ data.trackers.substances[1].substanceIds = <<<<"a">>, <<"a">>>>
  /\ includes(data.trackers.substances[2].substanceIds, <<"a">>)
  /\ \E j \in 1..Len(lastCall.ret) : lastCall.ret[j].id = <<"a">> /\ lastCall.ret[j].count = 1

(***************************************************************************)
(* src/src/components/HomeworkStackedChart.tsx                             *)
(***************************************************************************)
\* The segment of an entry.
segmentOf(entry) ==
  [id |-> entry.id, minutes |-> entry.minutes, notes |-> entry.notes,
   subjectName |-> entry.subjectName]

\* The body of the loop where the group of the day is replaced by a group
\* of the entry alone.
addToGroups_Replaces(groups, entry) ==
  IF displayDateToIso(entry.date) = <<>> THEN groups
  ELSE IF \E i \in 1..Len(groups) : groups[i].isoDate = displayDateToIso(entry.date)
       THEN [i \in 1..Len(groups) |->
               IF groups[i].isoDate = displayDateToIso(entry.date)
               THEN [groups[i] EXCEPT !.totalMinutes = entry.minutes,
                                      !.segments = <<segmentOf(entry)>>]
               ELSE groups[i]]
       ELSE Append(groups, [date |-> entry.date,
                            isoDate |-> displayDateToIso(entry.date),
                            totalMinutes |-> entry.minutes,
                            segments |-> <<segmentOf(entry)>>])

\* The body of the loop of buildDailyGroups: groups is the Map in the order
\* of insertion; an entry without ISO date is skipped, the first entry of
\* a day sets its group, a later one adds its minutes and its segment.
addToGroups(groups, entry) ==
  IF displayDateToIso(entry.date) = <<>> THEN groups
  ELSE IF \E i \in 1..Len(groups) : groups[i].isoDate = displayDateToIso(entry.date)
       THEN [i \in 1..Len(groups) |->
               IF groups[i].isoDate = displayDateToIso(entry.date)
               THEN [groups[i] EXCEPT !.totalMinutes = @ + entry.minutes,
                                      !.segments = Append(@, segmentOf(entry))]
               ELSE groups[i]]
       ELSE Append(groups, [date |-> entry.date,
                            isoDate |-> displayDateToIso(entry.date),
                            totalMinutes |-> entry.minutes,
                            segments |-> <<segmentOf(entry)>>])

\* groups after the loop from the last entry down to the first.
RECURSIVE groupsOf(_)
groupsOf(entries) ==
  IF entries = <<>> THEN <<>>
  ELSE addToGroups(groupsOf(Tail(entries)), Head(entries))

\* The group put into a list sorted by isoDate (localeCompare of ISO dates
\* is the order of their characters).
RECURSIVE insertByIsoDate(_, _)
insertByIsoDate(sortedGroups, group) ==
  IF sortedGroups = <<>> THEN <<group>>
  ELSE IF StrLess(group.isoDate, Head(sortedGroups).isoDate)
       THEN <<group>> \o sortedGroups
       ELSE <<Head(sortedGroups)>> \o insertByIsoDate(Tail(sortedGroups), group)

\* [...groups.values()].sort((left, right) => left.isoDate.localeCompare(right.isoDate))
RECURSIVE sortedByIsoDate(_)
sortedByIsoDate(groups) ==
  IF groups = <<>> THEN <<>>
  ELSE insertByIsoDate(sortedByIsoDate(SubSeq(groups, 1, Len(groups) - 1)),
                       groups[Len(groups)])

buildDailyGroups(entries) == sortedByIsoDate(groupsOf(entries))

\* The chart is followed for at most MaxDayEntries entries.
MaxDayEntries == 3

\* The homework entries of the Document: days in any order, a date that is
\* no display date, no minutes and some minutes.
HomeworkEntryInputs ==
  {[date |-> date, subjectId |-> <<"a">>, childId |-> <<"b">>, minutes |-> minutes,
    notes |-> ""] :
     date \in {Date20240102, Date20240103, BadDate}, minutes \in {0, 30, 45}}

HomeworkEntryLists ==
  {[i \in 1..Len(list) |-> WithId(list[i], nextId(i - 1))] :
     list \in SeqsUpTo(HomeworkEntryInputs, MaxDayEntries)}

\* The entries the page gives the chart; no subject of the meta list has
\* the id of the entries.
stackedEntries(homework) ==
  [i \in 1..Len(homework) |->
     [id |-> homework[i].id, date |-> homework[i].date, minutes |-> homework[i].minutes,
      notes |-> homework[i].notes, studentId |-> homework[i].childId,
      subjectName |-> "Unknown subject"]]

InitChart ==
  /\ \E homework \in HomeworkEntryLists :
       data = [createDefaultData(0) EXCEPT !.trackers.homework = homework]
  /\ now = 0
  /\ idCounter = MaxDayEntries
  /\ lastCall = [op |-> "none", ret |-> Void, changed |-> FALSE]
  /\ input = Undefined
  /\ sanitized = <<>>
  /\ madeIds = 0
  /\ InitDateVars
  /\ InitSaveVars
  /\ InitFileVars

\* A render of <HomeworkStackedChart entries={...} /> with the homework
\* entries of the Document.
HomeworkStackedChart ==
  /\ lastCall' = [op |-> "HomeworkStackedChart",
                  entries |-> stackedEntries(data.trackers.homework),
                  ret |-> buildDailyGroups(stackedEntries(data.trackers.homework)),
                  changed |-> FALSE]
  /\ UNCHANGED <<data, now, idCounter>>
  /\ UNCHANGED nonRendererVars

NextChart == HomeworkStackedChart

SpecChart == InitChart /\ [][NextChart]_vars

\* The entries of the list that have the date, as indices.
DatedAt(entries, date) == {k \in 1..Len(entries) : entries[k].date = date}

\* The sum of the minutes of the entries at the indices.
RECURSIVE SumMinutes(_, _)
SumMinutes(entries, indices) ==
  IF indices = {} THEN 0
  ELSE LET k == CHOOSE k \in indices : TRUE
       IN  entries[k].minutes + SumMinutes(entries, indices \ {k})

\* The segments of the group that are the segment of the entry.
SegmentsFor(group, entry) ==
  {j \in 1..Len(group.segments) : group.segments[j] = segmentOf(entry)}

\* C20: in every group of buildDailyGroups the total is the sum of the
\* minutes of the entries of that day and there are as many segments as
\* entries of that day; an entry with a display date has its segment in
\* exactly one group, once, and an entry with any other date has none.
C20_DailyGroups ==
  lastCall.op = "HomeworkStackedChart" =>
    /\ \A g \in 1..Len(lastCall.ret) :
         /\ lastCall.ret[g].totalMinutes =
              SumMinutes(lastCall.entries, DatedAt(lastCall.entries, lastCall.ret[g].date))
         /\ Len(lastCall.ret[g].segments) =
              Cardinality(DatedAt(lastCall.entries, lastCall.ret[g].date))
    /\ \A k \in 1..Len(lastCall.entries) :
         IF isDisplayDate(lastCall.entries[k].date)
         THEN /\ Cardinality({g \in 1..Len(lastCall.ret) :
                               SegmentsFor(lastCall.ret[g], lastCall.entries[k]) # {}}) = 1
              /\ \A g \in 1..Len(lastCall.ret) :
                   /\ Cardinality(SegmentsFor(lastCall.ret[g], lastCall.entries[k])) <= 1
                   /\ SegmentsFor(lastCall.ret[g], lastCall.entries[k]) # {} =>
                        lastCall.ret[g].date = lastCall.entries[k].date
         ELSE \A g \in 1..Len(lastCall.ret) :
                SegmentsFor(lastCall.ret[g], lastCall.entries[k]) = {}

\* Two entries of one day with minutes and an entry whose date is no
\* display date: one group, of two segments, with the sum of the two.
C20_Witness ==
  /\ lastCall.op = "HomeworkStackedChart"
  /\ Len(lastCall.entries) = 3
  /\ lastCall.entries[1].date = Date20240102 /\ lastCall.entries[1].minutes = 30
  /\ lastCall.entries[2].date = BadDate /\ lastCall.entries[2].minutes = 30
  /\ lastCall.entries[3].date = Date20240102 /\ lastCall.entries[3].minutes = 45
  /\ Len(lastCall.ret) = 1
  /\ lastCall.ret[1].totalMinutes = 75
  /\ Len(lastCall.ret[1].segments) = 2

(***************************************************************************)
(* src/src/components/WeightGraph.tsx                                      *)
(* Times are counted in days (MS_PER_DAY is one) and a quotient is kept as *)
(* its numerator and its denominator, so that a division by zero shows as  *)
(* a denominator 0.  A value that can be null is Null or <<value>>.        *)
(***************************************************************************)
MS_PER_WEEK == 7

\* The day number of the day d of the month m of the year y, a day past
\* the end of the month counting on into the next month.
daysFromCivil(y, m, d) ==
  LET year == IF m <= 2 THEN y - 1 ELSE y
      era == year \div 400
      yoe == year - era * 400
      doy == (153 * (IF m > 2 THEN m - 3 ELSE m + 9) + 2) \div 5 + d - 1
  IN  era * 146097 + yoe * 365 + yoe \div 4 - yoe \div 100 + doy - 719468

\* new Date(`${iso}T00:00:00`).getTime(), or Null for NaN: a month outside
\* 1..12 or a day outside 1..31 gives an invalid Date.
getTime(iso) ==
  LET year == DecimalValue(SubSeq(iso, 1, 4))
      month == DecimalValue(SubSeq(iso, 6, 7))
      day == DecimalValue(SubSeq(iso, 9, 10))
  IN  IF month < 1 \/ month > 12 \/ day < 1 \/ day > 31 THEN Null
      ELSE <<daysFromCivil(year, month, day)>>

parseDisplayDate(value) ==
  IF displayDateToIso(value) = <<>> THEN Null ELSE getTime(displayDateToIso(value))

\* The sum of the field of the points.
RECURSIVE reduceSum(_, _)
reduceSum(samples, field) ==
  IF samples = <<>> THEN 0 ELSE samples[1][field] + reduceSum(Tail(samples), field)

\* A computeRegressionLossPerWeek that divides whatever the denominator is.
computeRegressionLossPerWeek_Unguarded(series) ==
  IF Len(series) < 2 THEN Null
  ELSE LET n == Len(series)
           samples == [i \in 1..n |-> [x |-> series[i].date - series[1].date,
                                       y |-> series[i].weight,
                                       one |-> 1]]
           sumX == reduceSum(samples, "x")
           sumY == reduceSum(samples, "y")
           products == [i \in 1..n |->
                          [xy |-> (n * samples[i].x - sumX) * (n * samples[i].y - sumY),
                           xx |-> (n * samples[i].x - sumX) * (n * samples[i].x - sumX)]]
       IN  <<[num |-> 0 - MS_PER_WEEK * reduceSum(products, "xy"),
              den |-> reduceSum(products, "xx")]>>

\* computeRegressionLossPerWeek(points), points being series here: with x in weeks, dx = x - meanX and
\* dy = y - meanY, the sums of dx * dy and of dx * dx are those of
\* (n * x - sumX) * (n * y - sumY) and of the square of n * x - sumX, over
\* n * n; minus their quotient is returned, or null when the denominator
\* is not positive.
computeRegressionLossPerWeek(series) ==
  IF Len(series) < 2 THEN Null
  ELSE LET n == Len(series)
           samples == [i \in 1..n |-> [x |-> series[i].date - series[1].date,
                                       y |-> series[i].weight,
                                       one |-> 1]]
           sumX == reduceSum(samples, "x")
           sumY == reduceSum(samples, "y")
           products == [i \in 1..n |->
                          [xy |-> (n * samples[i].x - sumX) * (n * samples[i].y - sumY),
                           xx |-> (n * samples[i].x - sumX) * (n * samples[i].x - sumX)]]
       IN  IF reduceSum(products, "xx") <= 0 THEN Null
           ELSE <<[num |-> 0 - MS_PER_WEEK * reduceSum(products, "xy"),
                   den |-> reduceSum(products, "xx")]>>

\* The entry put into a list sorted by time, after the entries that are
\* not later: Array.prototype.sort is stable.
RECURSIVE insertByTime(_, _)
insertByTime(sortedEntries, entry) ==
  IF sortedEntries = <<>> THEN <<entry>>
  ELSE IF entry.date < Head(sortedEntries).date
       THEN <<entry>> \o sortedEntries
       ELSE <<Head(sortedEntries)>> \o insertByTime(Tail(sortedEntries), entry)

RECURSIVE sortedByTime(_)
sortedByTime(entries) ==
  IF entries = <<>> THEN <<>>
  ELSE insertByTime(sortedByTime(SubSeq(entries, 1, Len(entries) - 1)), entries[Len(entries)])

\* entries.map(...).filter(entry !== null).sort(...): the entries whose date
\* parses, by time.
parsedEntries(entries) ==
  sortedByTime([i \in 1..Len(SelectSeq(entries, LAMBDA entry : parseDisplayDate(entry.date) # Null)) |->
                  [id |-> SelectSeq(entries, LAMBDA entry : parseDisplayDate(entry.date) # Null)[i].id,
                   date |-> parseDisplayDate(
                              SelectSeq(entries, LAMBDA entry : parseDisplayDate(entry.date) # Null)[i].date)[1],
                   weight |-> SelectSeq(entries, LAMBDA entry : parseDisplayDate(entry.date) # Null)[i].weightLbs]])

\* The entries on or after the start date.
filteredEntries(entries, startDate) ==
  SelectSeq(parsedEntries(entries), LAMBDA entry : entry.date >= startDate)

\* What WeightGraph computes for the graph once the diet baseline is set:
\* the actual weekly loss, the actual goal date and whether the line of the
\* actual trend has points.
actualTrend(filtered, goalWeight, loss) ==
  IF loss # Null /\ loss[1].num > 0
  THEN [actualMeanLossPerWeek |-> loss,
        actualGoalDate |->
          <<[num |-> filtered[Len(filtered)].date * loss[1].num
                       + 7 * (IF (filtered[Len(filtered)].weight - goalWeight) * loss[1].den > 0
                              THEN (filtered[Len(filtered)].weight - goalWeight) * loss[1].den
                              ELSE 0),
             den |-> loss[1].num]>>,
        actualMeanSeries |-> TRUE]
  ELSE [actualMeanLossPerWeek |-> loss, actualGoalDate |-> Null, actualMeanSeries |-> FALSE]

\* The graph with the diet baseline set: the entries on or after the start
\* date, the expected goal date and the actual trend.
graphOf(startWeight, goalWeight, expectedLossPerWeek, startDate, entries) ==
  [shown |-> TRUE,
   filteredEntries |-> filteredEntries(entries, startDate),
   expectedGoalDate |-> <<[num |-> startDate * expectedLossPerWeek
                                     + 7 * (startWeight - goalWeight),
                           den |-> expectedLossPerWeek]>>]
    @@ (IF filteredEntries(entries, startDate) = <<>>
        THEN [actualMeanLossPerWeek |-> Null, actualGoalDate |-> Null,
              actualMeanSeries |-> FALSE]
        ELSE actualTrend(filteredEntries(entries, startDate), goalWeight,
                         computeRegressionLossPerWeek(filteredEntries(entries, startDate))))

\* WeightGraph({ settings, entries }): shown is false for the three
\* messages that replace the graph.
WeightGraphOf(settings, entries) ==
  IF \/ settings.startingWeightLbs = Null \/ settings.weightGoalLbs = Null
     \/ settings.weightLossPerWeekLbs = Null
     \/ settings.dietStartDate = Null
     \/ parseDisplayDate(settings.dietStartDate) = Null
  THEN [shown |-> FALSE]
  ELSE IF settings.weightLossPerWeekLbs[1] <= 0
          \/ settings.startingWeightLbs[1] - settings.weightGoalLbs[1] <= 0
  THEN [shown |-> FALSE]
  ELSE graphOf(settings.startingWeightLbs[1], settings.weightGoalLbs[1],
               settings.weightLossPerWeekLbs[1],
               parseDisplayDate(settings.dietStartDate)[1], entries)

\* The graph is followed for at most MaxWeights weight entries.
MaxWeights == 3

\* The settings without and with the diet baseline.
BaselineInputs ==
  {DefaultSettings,
   [DefaultSettings EXCEPT !.startingWeightLbs = <<200>>, !.dietStartDate = Date20240102,
                           !.weightLossPerWeekLbs = <<2>>, !.weightGoalLbs = <<150>>]}

\* Weight entries before, on and after the start date and with a date
\* that is no display date.
WeightEntryInputs ==
  {[date |-> date, weightLbs |-> weightLbs] :
     date \in {Date20231231, Date20240102, Date20240103, BadDate},
     weightLbs \in {180, 170}}

WeightEntryLists ==
  {[i \in 1..Len(list) |-> WithId(list[i], nextId(i - 1))] :
     list \in SeqsUpTo(WeightEntryInputs, MaxWeights)}

InitGraph ==
  /\ \E settings \in BaselineInputs, entries \in WeightEntryLists :
       data = [createDefaultData(0) EXCEPT !.settings = settings,
                                           !.trackers.weight = entries]
  /\ now = 0
  /\ idCounter = MaxWeights
  /\ lastCall = [op |-> "none", ret |-> Void, changed |-> FALSE]
  /\ input = Undefined
  /\ sanitized = <<>>
  /\ madeIds = 0
  /\ InitDateVars
  /\ InitSaveVars
  /\ InitFileVars

\* A render of <WeightGraph settings={data.settings} entries={data.trackers.weight} />
WeightGraph ==
  /\ lastCall' = [op |-> "WeightGraph",
                  ret |-> WeightGraphOf(data.settings, data.trackers.weight),
                  changed |-> FALSE]
  /\ UNCHANGED <<data, now, idCounter>>
  /\ UNCHANGED nonRendererVars

NextGraph == WeightGraph

SpecGraph == InitGraph /\ [][NextGraph]_vars

\* The dates of the weight entries dated on or after the diet start date.
DatesFromStart ==
  {data.trackers.weight[k].date :
     k \in {k \in 1..Len(data.trackers.weight) :
              /\ isDisplayDate(data.trackers.weight[k].date)
              /\ StrGeq(displayDateToIso(data.trackers.weight[k].date),
                        displayDateToIso(data.settings.dietStartDate))}}

\* The weight entries dated on or after the diet start date.
EntriesFromStart ==
  {k \in 1..Len(data.trackers.weight) : data.trackers.weight[k].date \in DatesFromStart}

\* The quotient, if it is one, has no denominator 0.
Divided(q) == q = Null \/ q[1].den # 0

\* C21: when the graph is shown and fewer than two weight entries are dated
\* on or after the diet start date, or all of them have one date, the actual
\* weekly loss is null, there is no actual goal date and the line of the
\* actual trend has no point; and no quotient of the graph has the
\* denominator 0.
C21_RegressionNeedsTwoDates ==
  (lastCall.op = "WeightGraph" /\ lastCall.ret.shown) =>
    /\ (Cardinality(EntriesFromStart) < 2 \/ Cardinality(DatesFromStart) <= 1) =>
         /\ lastCall.ret.actualMeanLossPerWeek = Null
         /\ lastCall.ret.actualGoalDate = Null
         /\ ~lastCall.ret.actualMeanSeries
    /\ Divided(lastCall.ret.expectedGoalDate)
    /\ Divided(lastCall.ret.actualMeanLossPerWeek)
    /\ Divided(lastCall.ret.actualGoalDate)

\* Two weight entries of the start date, of different weights: the graph
\* is shown without actual weekly loss.
C21_Witness ==
  /\ lastCall.op = "WeightGraph"
  /\ lastCall.ret.shown
  /\ Cardinality(EntriesFromStart) = 2
  /\ DatesFromStart = {Date20240102}
  /\ \E k \in EntriesFromStart : data.trackers.weight[k].weightLbs = 180
  /\ \E k \in EntriesFromStart : data.trackers.weight[k].weightLbs = 170
  /\ lastCall.ret.actualMeanLossPerWeek = Null

\* One weight entry on the start date and one the day after, lighter: the
\* graph has an actual weekly loss and an actual goal date.
C21_WitnessTrend ==
  /\ lastCall.op = "WeightGraph"
  /\ lastCall.ret.shown
  /\ Cardinality(DatesFromStart) = 2
  /\ lastCall.ret.actualMeanLossPerWeek # Null
  /\ lastCall.ret.actualMeanSeries

\* The tracker entries of a sanitized Document, as category and position.
TrackerEntriesOf(doc) ==
  UNION {{<<key, i>> : i \in 1..Len(doc.o.trackers.o[key].a)} : key \in MainTrackerKeys}

\* C22: in a Document that load or import gives the renderer (the output of
\* sanitizeData), no two tracker entries carry the same id, so that
\* removeTrackerEntry removes at most one entry.
C22_EntryIdsUnique ==
  \A p \in 1..Len(sanitized) :
    \A e, f \in TrackerEntriesOf(sanitized[p]) :
      e # f => sanitized[p].o.trackers.o[e[1]].a[e[2]].o.id
                 # sanitized[p].o.trackers.o[f[1]].a[f[2]].o.id

\* The entries of the list whose id an entry of the other list carries.
Surviving(list, other) ==
  SelectSeq(list, LAMBDA entry : \E i \in 1..Len(other) : other[i].id = entry.id)

\* The entries of the list that are no longer in the other list.
Gone(list, other) ==
  {i \in 1..Len(list) : \A j \in 1..Len(other) : other[j].id # list[i].id}

\* The calls that remove entries.
RemovingCalls == {"removeTrackerEntry", "clearAllTrackerEntries", "clearTrackerEntriesBefore"}

DatesOfDated(raw) ==
  [i \in 1..Cardinality(DatedElements(raw)) |-> raw[Nth(DatedElements(raw), i)].o.date]

\* The dates of a sanitized list.
DatesOfList(list) == [i \in 1..Len(list) |-> list[i].o.date]

optionalNumber(v) == IF v = JsNull THEN Null ELSE <<v.n>>

\* The settings of a Document received from the main process.
receivedSettings(settings) ==
  [theme |-> IF settings.o.theme = JsStr(Dark) THEN "dark" ELSE "light",
   startingWeightLbs |-> optionalNumber(settings.o.startingWeightLbs),
   dietStartDate |-> IF settings.o.dietStartDate = JsNull THEN Null ELSE settings.o.dietStartDate.s,
   weightLossPerWeekLbs |-> optionalNumber(settings.o.weightLossPerWeekLbs),
   weightGoalLbs |-> optionalNumber(settings.o.weightGoalLbs),
   carbLimitPerDay |-> optionalNumber(settings.o.carbLimitPerDay),
   calorieLimitPerDay |-> optionalNumber(settings.o.calorieLimitPerDay),
   dailyStepsGoal |-> optionalNumber(settings.o.dailyStepsGoal),
   desiredSleepHours |-> optionalNumber(settings.o.desiredSleepHours)]

\* setData(loaded) with a Document of the main process whose lists are
\* empty, received at the clock reading t.
receivedDocument(doc, t) ==
  [createDefaultData(t) EXCEPT !.settings = receivedSettings(doc.o.settings)]

\* A parseDecimal that keeps a negative number.
parseDecimal_KeepsNegative(raw) ==
  IF trim(raw) = <<>> THEN Null
  ELSE LET parsed == parseFloat(trim(raw))
       IN  IF parsed = NaN THEN Null ELSE <<parsed.n>>

\* parseDecimal of the Meta page.  Number.parseFloat skips the white space
\* before the number, as trim does.
parseDecimal(raw) ==
  IF trim(raw) = <<>> THEN Null
  ELSE LET parsed == parseFloat(trim(raw))
       IN  IF parsed = NaN \/ parsed.n < 0 THEN Null ELSE <<parsed.n>>

\* parseDecimalInRange of the Meta page.
parseDecimalInRange(raw, min, max) ==
  IF trim(raw) = <<>> THEN Null
  ELSE LET parsed == parseFloat(trim(raw))
       IN  IF parsed = NaN \/ parsed.n < min \/ parsed.n > max THEN Null ELSE <<parsed.n>>

\* The settings whose field of the Meta page calls parseDecimal.
NonNegativeSettings ==
  {"startingWeightLbs", "weightLossPerWeekLbs", "weightGoalLbs",
   "carbLimitPerDay", "calorieLimitPerDay", "dailyStepsGoal"}

\* What is typed into a field of a number that must not be negative.
NumberTexts == {<<>>, <<"-", "1">>, <<"1", "3">>}

\* What is typed into the field of the sleep hours: nothing, and a number
\* below, inside and above the range.
SleepTexts == {<<" ">>, <<"2">>, <<"8">>, <<"1", "3">>}

\* Settings the Meta page saved, with 13 typed in each field that must not
\* be negative and 8 sleep hours.
SavedSettings ==
  [f \in NonNegativeSettings |-> JsNum(13)]
    @@ [theme |-> JsStr(Dark), dietStartDate |-> JsStr(Date20240102),
        desiredSleepHours |-> JsNum(8)]

\* The same edited by hand, with numbers out of their ranges and values
\* that are not numbers.
EditedSettings ==
  [SavedSettings EXCEPT !.startingWeightLbs = JsNum(0 - 1),
                        !.weightGoalLbs = JsNum(0 - 150),
                        !.carbLimitPerDay = NaN,
                        !.dailyStepsGoal = JsStr(<<"1", "2">>),
                        !.desiredSleepHours = JsNum(13)]

\* What the files hold: no settings section, and the settings above.
SettingsFileValues ==
  {Sections(Undefined, Undefined, Undefined),
   Sections(JsObj(SavedSettings), Undefined, Undefined),
   Sections(JsObj(EditedSettings), Undefined, Undefined),
   Sections(JsObj([EditedSettings EXCEPT !.desiredSleepHours = JsNum(2)]),
            Undefined, Undefined)}

SettingsFileTexts ==
  {JSONstringify(v) : v \in SettingsFileValues}
    \cup {Truncated(JSONstringify(Sections(JsObj(SavedSettings), Undefined, Undefined)))}

\* The load effect with the data file of this specification.
loadSettings ==
  /\ loading
  /\ \E readOk \in BOOLEAN :
       \E r \in {readDataFile(file, readOk, "written", now, madeIds)} :
         /\ file' = r.file
         /\ madeIds' = r.n
         /\ data' = IF r.rejected THEN data ELSE receivedDocument(r.value, now)
         /\ error' = IF r.rejected THEN LoadError ELSE error
         /\ loading' = FALSE
         /\ lastCall' = [op |-> "loadData", ret |-> Void, changed |-> data' # data,
                         raw |-> <<>>]
  /\ UNCHANGED <<now, idCounter, input, sanitized, dateVars, timer, timers, saves,
                 changes, ipc>>

\* importFromJson with a file of this specification chosen in the dialog.
importSettings ==
  /\ ~loading
  /\ \E text \in SettingsFileTexts, readOk \in BOOLEAN :
       \E r \in {importData(file, <<text>>, readOk, "written", now, madeIds)} :
         /\ file' = r.file
         /\ madeIds' = r.n
         /\ data' = IF r.rejected THEN data ELSE receivedDocument(r.value, now)
         /\ error' = IF r.rejected THEN ImportError ELSE error
         /\ lastCall' = [op |-> "importFromJson", ret |-> Bool(~r.rejected),
                         changed |-> data' # data, raw |-> <<>>]
  /\ UNCHANGED <<now, idCounter, input, sanitized, dateVars, loading, timer, timers,
                 saves, changes, ipc>>

\* onChange of a number field of the Meta page other than the sleep hours:
\* updateSettings({ [field]: parseDecimal(event.target.value) }).
changeNumberSetting ==
  /\ ~loading
  /\ \E field \in NonNegativeSettings, raw \in NumberTexts :
       \E r \in {updateSettingsCall(data, field :> parseDecimal(raw), now)} :
         /\ data' = r.data
         /\ lastCall' = Called("updateSettings", r) @@ [raw |-> raw]
  /\ UNCHANGED <<now, idCounter>>
  /\ UNCHANGED nonRendererVars

\* onChange of the field of the desired sleep hours:
\* updateSettings({ desiredSleepHours: parseDecimalInRange(value, 3, 12) }).
changeSleepHours ==
  /\ ~loading
  /\ \E raw \in SleepTexts :
       \E r \in {updateSettingsCall(data, [desiredSleepHours |-> parseDecimalInRange(raw, 3, 12)],
                                    now)} :
         /\ data' = r.data
         /\ lastCall' = Called("updateSettings", r) @@ [raw |-> raw]
  /\ UNCHANGED <<now, idCounter>>
  /\ UNCHANGED nonRendererVars

InitSettings ==
  /\ file \in SettingsFileTexts
  /\ ipc = NoCall
  /\ data = createDefaultData(0)
  /\ now = 0
  /\ idCounter = 0
  /\ lastCall = [op |-> "none", ret |-> Void, changed |-> FALSE,
                 raw |-> <<>>]
  /\ input = Undefined
  /\ sanitized = <<>>
  /\ madeIds = 0
  /\ InitDateVars
  /\ loading = TRUE
  /\ error = Null
  /\ timer = <<>>
  /\ timers = {}
  /\ saves = <<>>
  /\ changes = <<>>

NextSettings ==
  \/ loadSettings
  \/ importSettings
  \/ changeNumberSetting
  \/ changeSleepHours

SpecSettings == InitSettings /\ [][NextSettings]_vars

\* A setting that is null or a number from min to max.
InRange(value, min, max) == value = Null \/ (value[1] >= min /\ value[1] <= max)

\* C25: in every Document the renderer holds after a load or an import and
\* after any number of changes of the number fields of the Meta page, each
\* numeric setting is null or in its range: not negative for the starting
\* weight, the weekly loss, the weight goal, the carb limit, the calorie
\* limit and the steps goal, and from 3 to 12 for the desired sleep hours.
C25_NumericSettingsInRange ==
  /\ \A field \in NonNegativeSettings :
       data.settings[field] = Null \/ data.settings[field][1] >= 0
  /\ InRange(data.settings.desiredSleepHours, 3, 12)

\* The settings edited by hand were loaded: the starting weight of -1, the
\* steps goal "12" and the 13 sleep hours became null and the calorie limit
\* of 13 was kept; -1 was then typed as the weekly loss (now null) and 8 as
\* the sleep hours (kept).
C25_Witness ==
  /\ lastCall.op = "updateSettings"
  /\ lastCall.raw = <<"8">>
  /\ lastCall.changed
  /\ file = JSONstringify(Sections(JsObj(EditedSettings), Undefined, Undefined))
  /\ data.settings.startingWeightLbs = Null
  /\ data.settings.dailyStepsGoal = Null
  /\ data.settings.calorieLimitPerDay = <<13>>
  /\ data.settings.weightLossPerWeekLbs = Null
  /\ data.settings.desiredSleepHours = <<8>>

(***************************************************************************)
(* SpecMirror: the data file as the mirror of the Document.  The load      *)
(* effect, the theme switch, an import and the save effect of the renderer *)
(* (src/src/context/AppDataContext.tsx, lines 153-198 and 462-474) with    *)
(* the handlers of the main process that read and write the data file      *)
(* (src/electron/main.ts, lines 626-704).  saveData(data) is a request to  *)
(* the main process; the handler awaits fs.writeFile, and the writes of    *)
(* two requests that are both under way end in either order.  The          *)
(* Documents of this specification hold settings only.                     *)
(***************************************************************************)
\* number | null as the main process receives it.
sentNumber(value) == IF value = Null THEN JsNull ELSE JsNum(value[1])

\* The Document d as saveData(d) hands it to the main process; the lists of
\* d are empty.
sentDocument(d) ==
  JsObj([version |-> JsNum(d.version),
         settings |->
           JsObj([theme |-> IF d.settings.theme = "dark" THEN JsStr(Dark) ELSE JsStr(Light),
                  startingWeightLbs |-> sentNumber(d.settings.startingWeightLbs),
                  dietStartDate |-> IF d.settings.dietStartDate = Null THEN JsNull
                                    ELSE JsStr(d.settings.dietStartDate),
                  weightLossPerWeekLbs |-> sentNumber(d.settings.weightLossPerWeekLbs),
                  weightGoalLbs |-> sentNumber(d.settings.weightGoalLbs),
                  carbLimitPerDay |-> sentNumber(d.settings.carbLimitPerDay),
                  calorieLimitPerDay |-> sentNumber(d.settings.calorieLimitPerDay),
                  dailyStepsGoal |-> sentNumber(d.settings.dailyStepsGoal),
                  desiredSleepHours |-> sentNumber(d.settings.desiredSleepHours)]),
         meta |-> JsObj([l \in MetaListKeys |-> JsArr(<<>>)]),
         trackers |-> JsObj([k \in TrackerCategories |-> JsArr(<<>>)]),
         updatedAt |-> JsStr(toISOString(0))])

\* The data file when the application starts: the user's settings as the
\* Meta page saved them.
UserFile == JSONstringify(sanitizeData(Sections(JsObj(SavedSettings), Undefined, Undefined), 0, 0).value)

\* The file chosen in the import dialog.
ImportedFile == JSONstringify(Sections(JsObj(EditedSettings), Undefined, Undefined))

\* The load effect: loadData() resolves with what readDataFile returns and
\* setData(loaded), or rejects (fs.readFile threw: the file is as it was)
\* and setError; then setLoading(false).
loadData ==
  /\ loading
  /\ \E readOk \in BOOLEAN :
       \E r \in {readDataFile(file, readOk, "written", now, madeIds)} :
         /\ file' = r.file
         /\ madeIds' = r.n
         /\ error' = IF r.rejected THEN LoadError ELSE error
         /\ IF r.rejected THEN render(data, FALSE, "loadFailed")
            ELSE render(receivedDocument(r.value, now), FALSE, "loaded")
  /\ UNCHANGED <<now, idCounter, lastCall, input, sanitized, dateVars, saves, ipc>>

\* importFromJson: the import handler writes the sanitized content of the
\* chosen file to the data file and setData(imported); a cancelled dialog
\* changes nothing.
importFromJsonChosen ==
  /\ ~loading
  /\ \E r \in {importData(file, <<ImportedFile>>, TRUE, "written", now, madeIds)} :
       /\ file' = r.file
       /\ madeIds' = r.n
       /\ render(receivedDocument(r.value, now), loading, "imported")
       /\ lastCall' = [op |-> "importFromJson", ret |-> Bool(TRUE), changed |-> data' # data]
  /\ UNCHANGED <<now, idCounter, input, sanitized, dateVars, error, saves, ipc>>

\* The write of a save under way ends: fs.writeFile wrote the text of
\* sanitizeData(data) and the promise of saveData resolves.
saveDataResolves ==
  \E i \in 1..Len(saves) :
    /\ saves[i].state = "pending"
    /\ \E w \in {writeDataFile(file, sentDocument(saves[i].data), "written", now, madeIds)} :
         /\ file' = w.file
         /\ madeIds' = w.n
    /\ saves' = [saves EXCEPT ![i].state = "resolved"]
    /\ UNCHANGED <<rendererVars, now, input, sanitized, dateVars, loading, error, timer,
                   timers, changes, ipc>>

\* The write of a save under way throws: the file is as it was or cut
\* short, and the catch of saveData sets the error.
saveDataRejects ==
  \E i \in 1..Len(saves), outcome \in WriteOutcomes \ {"written"} :
    /\ saves[i].state = "pending"
    /\ \E w \in {writeDataFile(file, sentDocument(saves[i].data), outcome, now, madeIds)} :
         /\ file' = w.file
         /\ madeIds' = w.n
    /\ saves' = [saves EXCEPT ![i].state = "rejected"]
    /\ error' = SaveError
    /\ UNCHANGED <<rendererVars, now, input, sanitized, dateVars, loading, timer,
                   timers, changes, ipc>>

InitMirror ==
  /\ file = UserFile
  /\ ipc = NoCall
  /\ data = createDefaultData(0)
  /\ now = 0
  /\ idCounter = 0
  /\ lastCall = [op |-> "none", ret |-> Void, changed |-> FALSE]
  /\ input = Undefined
  /\ sanitized = <<>>
  /\ madeIds = 0
  /\ InitDateVars
  /\ loading = TRUE
  /\ error = Null
  /\ timer = <<>>
  /\ timers = {}
  /\ saves = <<>>
  /\ changes = <<>>

NextMirror ==
  \/ advance
  \/ loadData
  \/ switchTheme
  \/ importFromJsonChosen
  \/ timerFires
  \/ saveDataResolves
  \/ saveDataRejects

SpecMirror == InitMirror /\ [][NextMirror]_vars

\* No timer is pending, no write is under way and every write made ended
\* well.
Settled ==
  /\ ~loading
  /\ timers = {}
  /\ \A i \in 1..Len(saves) : saves[i].state = "resolved"

\* The data file holds the sanitized form of the Document d (the time of
\* the sanitizing apart).
Mirrors(text, d) ==
  /\ JSONparse(text).ok
  /\ WithoutUpdatedAt(JSONparse(text).value)
       = WithoutUpdatedAt(sanitizeData(sentDocument(d), now, madeIds).value)

\* C26: once no save timer is pending and no write is under way, the data
\* file holds the sanitized form of the Document the renderer holds, in
\* whatever order the writes of the saves ended.
C26_FileMirrorsDocument == Settled => Mirrors(file, data)

(***************************************************************************)
(* SpecRefs: every callback of the mutation API on every meta list and on  *)
(* the trackers whose entries reference one, from the empty Document.  The *)
(* forms offer the items of the list for a reference (NewEntryInputs).     *)
(***************************************************************************)
NextRefs ==
  \/ Tick
  \/ addMetaItem(MetaListKeys, {<<"a">>})
  \/ renameMetaItem(MetaListKeys, {<<"b">>})
  \/ removeMetaItem(MetaListKeys)
  \/ addTrackerEntry(ReferencingKeys, {Date20240102})
  \/ removeTrackerEntry(ReferencingKeys)
  \/ clearAllTrackerEntries
  \/ clearTrackerEntriesBefore({Date20240103})
  \/ updateSettings

SpecRefs == Init /\ [][NextRefs]_vars

\* The ids of the activities of the entries of a list.
ActivityRefs(entries) ==
  UNION {{entries[i].activities[j].metaId : j \in 1..Len(entries[i].activities)} :
           i \in 1..Len(entries)}

\* The ids the entries of the Document d hold for the meta list listKey.
\* The empty selection of a form with no item to offer names no item.
ReferencesTo(d, listKey) ==
  (CASE listKey = "workouts" -> ActivityRefs(d.trackers.workouts)
     [] listKey = "entertainment" -> ActivityRefs(d.trackers.entertainment)
     [] listKey = "subjects" ->
          {d.trackers.homework[i].subjectId : i \in 1..Len(d.trackers.homework)}
     [] listKey = "children" ->
          {d.trackers.homework[i].childId : i \in 1..Len(d.trackers.homework)}
     [] listKey = "chores" ->
          UNION {{d.trackers.cleaning[i].choreIds[j] :
                    j \in 1..Len(d.trackers.cleaning[i].choreIds)} :
                   i \in 1..Len(d.trackers.cleaning)}
     [] listKey = "substances" ->
          UNION {{d.trackers.substances[i].substanceIds[j] :
                    j \in 1..Len(d.trackers.substances[i].substanceIds)} :
                   i \in 1..Len(d.trackers.substances)})
    \ {<<>>}

\* C27: after any sequence of callbacks of the mutation API from the empty
\* Document, where each entry added references items that are in the meta
\* list when it is added, every reference of every entry (the metaId of
\* the activities of workouts and entertainment, subjectId, childId,
\* choreIds, substanceIds) names an item that is in its meta list now.
C27_ReferencesResolve ==
  \A listKey \in MetaListKeys : ReferencesTo(data, listKey) \subseteq ItemIds(data, listKey)

\* A cleaning entry references the one chore, and removeMetaItem has just
\* refused to delete that chore.
C27_Witness ==
  /\ lastCall.op = "removeMetaItem"
  /\ lastCall.ret.ok = FALSE
  /\ lastCall.ret.reason = ReasonInUse
  /\ Len(data.trackers.cleaning) = 1
  /\ ReferencesTo(data, "chores") = {nextId(0)}
  /\ ItemIds(data, "chores") = {nextId(0)}

\* The initial load rejected and the Document has not changed since: the
\* renderer still holds the placeholder createDefaultData() made at startup
\* (with the theme a switch during the load gave it).
HoldsPlaceholder ==
  /\ changes # <<>>
  /\ changes[Len(changes)].kind = "loadFailed"

\* C28: the placeholder Document made at startup is never passed to
\* saveData: no save is issued while the initial load is pending, and when
\* the initial load rejected no save is issued for the placeholder, so the
\* data file is as the user left it.
C28_PlaceholderNeverSaved ==
  /\ loading => (saves = <<>> /\ timers = {})
  /\ HoldsPlaceholder => (saves = <<>> /\ file = UserFile)

\* The first half of C28 alone: while the initial load is pending no timer
\* is set and no save is issued.
C28_NoSaveWhileLoading == loading => (saves = <<>> /\ timers = {})

(***************************************************************************)
(* SpecBackup: Backup + Delete of the settings page (src/unnamed/part_003, *)
(* SettingsPage).  handleBackupAndDeleteBefore builds the backup from the  *)
(* Document it was rendered with, awaits exportProvidedData(backupData)    *)
(* and then calls clearTrackerEntriesBefore.  While the export is awaited  *)
(* the other callbacks of the mutation API can run.  ipc holds the export  *)
(* under way or settled: the backup handed over, the date of the handler   *)
(* and, once settled, what exportProvidedData returned.                    *)
(***************************************************************************)
\* countTrackerEntries
countTrackerEntries(trackers) == SumLens(trackers, trackerKeys)

\* entry => displayDateToIso(entry.date) < cutoffIsoDate
before(entries, cutoffIsoDate) ==
  SelectSeq(entries, LAMBDA entry : StrLess(displayDateToIso(entry.date), cutoffIsoDate))

\* buildBackupDataBeforeDate(source, beforeDate) at the clock reading t.
buildBackupDataBeforeDate(source, beforeDate, t) ==
  LET cutoffIsoDate == displayDateToIso(beforeDate)
  IN  IF cutoffIsoDate = <<>>
      THEN stamp([source EXCEPT !.trackers = [k \in TrackerCategories |-> <<>>]], t)
      ELSE stamp([source EXCEPT !.trackers =
                    [k \in TrackerCategories |-> before(source.trackers[k], cutoffIsoDate)]], t)

ExportError == <<"Export failed.">>

\* A continuation that deletes whatever exportProvidedData returned.
afterExport_DeletesAnyway(previous, exported, deleteBeforeDate, t) ==
  clearTrackerEntriesBeforeCall(previous, deleteBeforeDate, t)

\* handleBackupAndDeleteBefore after the await: nothing but a notice when
\* exported is false, clearTrackerEntriesBefore(deleteBeforeDate) otherwise.
afterExport(previous, exported, deleteBeforeDate, t) ==
  IF ~exported THEN [data |-> previous, ret |-> Num(0)]
  ELSE clearTrackerEntriesBeforeCall(previous, deleteBeforeDate, t)

\* An export is awaited.
ExportPending == ipc.op = "export" /\ ipc.state = "pending"

\* The click on Backup + Delete, up to the await.  The buttons of the modal
\* are disabled while an action is pending.  A date that is not valid and
\* an empty backup end the handler with a notice.
handleBackupAndDeleteBefore ==
  /\ ~ExportPending
  /\ \E deleteBeforeDate \in {Date20240102, BadDate} :
       LET backupData == buildBackupDataBeforeDate(data, deleteBeforeDate, now)
       IN  IF isDisplayDate(deleteBeforeDate) /\ countTrackerEntries(backupData.trackers) # 0
           THEN ipc' = [op |-> "export", state |-> "pending", backup |-> backupData,
                        deleteBeforeDate |-> deleteBeforeDate, exported |-> FALSE]
           ELSE ipc' = NoCall
  /\ lastCall' = [op |-> "handleBackupAndDeleteBefore", ret |-> Void, changed |-> FALSE]
  /\ UNCHANGED <<data, now, idCounter, mainVars, dateVars, saveVars, file>>

\* exportProvidedData settles and the handler goes on: the file was written
\* (true), the dialog was cancelled (false), or exportData rejected (the
\* catch sets the error and returns false).
exportProvidedDataSettles ==
  /\ ExportPending
  /\ \E outcome \in {"saved", "cancelled", "failed"} :
       \E r \in {afterExport(data, outcome = "saved", ipc.deleteBeforeDate, now)} :
         /\ data' = r.data
         /\ lastCall' = Called("clearTrackerEntriesBefore", r)
         /\ ipc' = [ipc EXCEPT !.state = outcome, !.exported = (outcome = "saved")]
         /\ error' = IF outcome = "failed" THEN ExportError ELSE error
  /\ UNCHANGED <<now, idCounter, mainVars, dateVars, loading, timer, timers, saves,
                 changes, file>>

BackupKeys == {"weight", "steps"}

NextBackup ==
  \/ Tick
  \/ addTrackerEntry(BackupKeys, {Date20231231, Date20240103})
  \/ removeTrackerEntry(BackupKeys)
  \/ handleBackupAndDeleteBefore
  \/ exportProvidedDataSettles

SpecBackup == Init /\ [][NextBackup]_vars

\* The step in which the awaited export settles.
ExportSettles == ExportPending /\ ipc'.state # "pending"

\* C29: every entry the delete step of Backup + Delete removes is in the
\* backup that was exported, whatever happened to the Document while the
\* export was awaited.
C29_DeletedWereBackedUp ==
  [][ExportSettles =>
       \A key \in TrackerCategories :
         \A i \in Gone(data.trackers[key], data'.trackers[key]) :
           includes(ipc.backup.trackers[key], data.trackers[key][i])]_vars

\* C30: when exportProvidedData returns false (the dialog was cancelled or
\* the export failed), the step deletes no entry and leaves the Document as
\* it is.
C30_NoDeleteWithoutBackup ==
  [][(ExportSettles /\ ~ipc'.exported) => data' = data]_vars

\* The export of a backup with one weight entry was cancelled, and the
\* entry, dated before the cutoff, is still in the Document.
C30_Witness ==
  /\ ipc.op = "export"
  /\ ipc.state = "cancelled"
  /\ ~ipc.exported
  /\ lastCall.op = "clearTrackerEntriesBefore"
  /\ lastCall.ret = Num(0)
  /\ Len(ipc.backup.trackers.weight) = 1
  /\ data.trackers.weight = ipc.backup.trackers.weight
  /\ StrLess(displayDateToIso(data.trackers.weight[1].date),
             displayDateToIso(ipc.deleteBeforeDate))
====
